---- MODULE Spec2Model ----
(***************************************************************************)
(* Model of the digger back end: the query history store                   *)
(* (digger/backend/history.py) and the dig process executor                *)
(* (digger/backend/dig_executor.py).                                       *)
(*                                                                         *)
(* Encodings.  An Optional value is a sequence of length 0 (None) or 1.    *)
(* A datetime is an integer number of minutes.  A text that the code       *)
(* strips, lowercases or searches is a sequence of tokens.  A JSON value   *)
(* is a record whose field jtype names its JSON type; the keys of a JSON   *)
(* object are the other fields of the record.                              *)
(***************************************************************************)
EXTENDS Integers, Sequences, FiniteSets, TLC

VARIABLES
    entries,       \* QueryHistory._entries
    max_entries,   \* QueryHistory.max_entries
    disk,          \* content of the history file
    clock,         \* datetime.now()
    ticks,         \* how many times the clock has advanced
    ctor,          \* "" when the constructor returned, else the exception it raised
    last,          \* the last store operation: name, arguments, result
    run,           \* the entries added by the latest consecutive add_entry calls
                   \* with pairwise distinct keys
    added,         \* the entry most recently added, None before the first addition
    fresh          \* the entries added to a store since it was empty, see FreshOf

hvars == <<entries, max_entries, disk, clock, ticks, ctor, last, run, added, fresh>>

VARIABLES
    dig_available, \* DigExecutor._dig_available
    call,          \* the calls of execute_dig and execute_dig_sync, by call number
    probes         \* how many times the probe process "dig -v" has been run

evars == <<dig_available, call, probes>>

VARIABLES
    parser,        \* the call of DigParser.parse in progress
    fn             \* the last call of a function that keeps no state: name, arguments, result

pvars == <<parser, fn>>

VARIABLES
    view,          \* the HistoryWidget: search text, rows, confirmation dialogs
    window         \* the MainWindow, its event loop and its worker threads

uvars == <<view, window>>

vars == <<entries, max_entries, disk, clock, ticks, ctor, last, run, added, fresh,
          dig_available, call, probes, parser, fn, view, window>>

----------------------------------------------------------------------------
(* Bounds *)

MaxTicks == 2        \* clock advances at most this many times
MaxFileLen == 2      \* entries of a history file that exists at construction
MaxCalls == 2        \* calls of execute_dig and execute_dig_sync on one executor
MaxStatLen == 4      \* entries of a history that get_stats summarises
MaxQueries == 2      \* queries that the main window executes

Calls == 1..MaxCalls

----------------------------------------------------------------------------
(* Values *)

\* no call of DigParser.parse has been made
IdleParser ==
    [pc |-> "idle", output |-> <<>>, domain |-> <<>>, record_type |-> <<>>,
     lines |-> <<>>, pos |-> 0, current_section |-> <<>>,
     answer_section |-> <<>>, authority_section |-> <<>>, additional_section |-> <<>>,
     status |-> <<>>, query_time_ms |-> <<>>, server |-> <<>>,
     response |-> <<>>, exc |-> ""]

\* no function has been called
NoCall == [op |-> "", arg |-> <<>>, ret |-> <<>>]

\* no history dialog is open
NoView ==
    [open |-> FALSE, search |-> <<>>, rows |-> <<>>, dialogs |-> <<>>, response |-> "",
     completed |-> 0]

\* no main window has been made
NoWindow ==
    [current_query |-> <<>>, loading |-> FALSE, issued |-> 0, loop |-> <<>>,
     workers |-> <<>>, log |-> <<>>]

None == <<>>
Some(x) == <<x>>

RecordTypeValues == {"A", "AAAA", "CNAME", "MX", "NS", "SOA", "TXT"}

\* RecordType(value): the enum member of a value, or ValueError
RecordTypeMember(v) == <<"RecordType", v>>

\* str.lower() on the domains of the model
Lower(s) ==
    CASE s = "A.com" -> "a.com"
      [] s = "B.org" -> "b.org"
      [] OTHER -> s

RecentThreshold == 5
MinutesPerDay == 1440

\* the instants by which the clock advances: within the dedup window, across
\* it (1 + 4 = RecentThreshold), and one day
TickSteps == {1, 4, MinutesPerDay}

\* what the callers of the model pass to add_entry
AddDomains == {"a.com", "A.com"}
AddKeys ==
    { <<d, RecordTypeMember("A"), None>> : d \in AddDomains }
      \cup { <<"a.com", RecordTypeMember("MX"), None>>,
             <<"a.com", RecordTypeMember("A"), Some("8.8.8.8")>> }
AddOutcomes == { <<"NOERROR", Some(45)>>, <<"NXDOMAIN", None>> }

HistoryEntry(domain, record_type, nameserver, timestamp, status, query_time_ms) ==
    [domain |-> domain, record_type |-> record_type, nameserver |-> nameserver,
     timestamp |-> timestamp, status |-> status, query_time_ms |-> query_time_ms]

\* to_dict that writes the enum member, not its string code
to_dict_member(e) ==
    [jtype |-> "object",
     domain |-> e.domain,
     record_type |-> e.record_type[1],
     nameserver |-> e.nameserver,
     timestamp |-> <<"iso", e.timestamp>>,
     status |-> e.status,
     query_time_ms |-> e.query_time_ms]

\* HistoryEntry.to_dict
to_dict(e) ==
    [jtype |-> "object",
     domain |-> e.domain,
     record_type |-> e.record_type[2],
     nameserver |-> e.nameserver,
     timestamp |-> <<"iso", e.timestamp>>,
     status |-> e.status,
     query_time_ms |-> e.query_time_ms]

\* HistoryEntry.from_dict: [exc |-> "", entry |-> e] or [exc |-> the exception]
from_dict(d) ==
    IF d.jtype # "object" THEN [exc |-> "TypeError"]
    ELSE IF "domain" \notin DOMAIN d THEN [exc |-> "KeyError"]
    ELSE IF "record_type" \notin DOMAIN d THEN [exc |-> "KeyError"]
    ELSE IF d.record_type \notin RecordTypeValues THEN [exc |-> "ValueError"]
    ELSE IF "timestamp" \notin DOMAIN d THEN [exc |-> "KeyError"]
    ELSE IF d.timestamp[1] = "number" THEN [exc |-> "TypeError"]
    ELSE IF d.timestamp[1] # "iso" THEN [exc |-> "ValueError"]
    ELSE IF "status" \notin DOMAIN d THEN [exc |-> "KeyError"]
    ELSE [exc |-> "",
          entry |-> HistoryEntry(
              d.domain,
              RecordTypeMember(d.record_type),
              IF "nameserver" \in DOMAIN d THEN d.nameserver ELSE None,
              d.timestamp[2],
              d.status,
              IF "query_time_ms" \in DOMAIN d THEN d.query_time_ms ELSE None)]

----------------------------------------------------------------------------
(* Sequence helpers with Python's semantics *)

\* s[:n]
SliceTo(s, n) ==
    LET k == IF n >= 0 THEN (IF n < Len(s) THEN n ELSE Len(s))
             ELSE (IF Len(s) + n > 0 THEN Len(s) + n ELSE 0)
    IN  SubSeq(s, 1, k)

\* del s[i] (1-based)
RemoveAt(s, i) == SubSeq(s, 1, i - 1) \o SubSeq(s, i + 1, Len(s))

\* list.sort(key=timestamp, reverse=True): stable, descending
RECURSIVE InsertDesc(_, _)
InsertDesc(sorted, e) ==
    IF sorted = <<>> THEN <<e>>
    ELSE IF Head(sorted).timestamp >= e.timestamp
         THEN <<Head(sorted)>> \o InsertDesc(Tail(sorted), e)
         ELSE <<e>> \o sorted

RECURSIVE SortNewestFirst(_)
SortNewestFirst(s) ==
    IF s = <<>> THEN <<>>
    ELSE InsertDesc(SortNewestFirst(SubSeq(s, 1, Len(s) - 1)), s[Len(s)])

----------------------------------------------------------------------------
(* Persistence *)

\* the exceptions _load_history catches
LoadCaught == {"JSONDecodeError", "KeyError", "ValueError"}

\* the first exception of [from_dict(entry) for entry in raw], "" when none
RECURSIVE FirstExc(_)
FirstExc(raw) ==
    IF raw = <<>> THEN ""
    ELSE IF from_dict(Head(raw)).exc # "" THEN from_dict(Head(raw)).exc
    ELSE FirstExc(Tail(raw))

\* the exception the body of the try block of _load_history raises, "" when none
LoadExc(file) ==
    CASE file.jtype = "missing" -> ""
      [] file.jtype = "invalid" -> "JSONDecodeError"
      [] file.jtype = "object" ->
            IF "entries" \in DOMAIN file THEN FirstExc(file.entries) ELSE ""
      [] OTHER -> "AttributeError"

\* QueryHistory._load_history: [exc |-> exception that escapes, entries |-> _entries]
_load_history(file) ==
    LET exc == LoadExc(file) IN
    IF exc # ""
    THEN [exc |-> IF exc \in LoadCaught THEN "" ELSE exc, entries |-> <<>>]
    ELSE IF file.jtype = "object" /\ "entries" \in DOMAIN file
         THEN [exc |-> "",
               entries |-> SortNewestFirst(
                   [i \in 1..Len(file.entries) |-> from_dict(file.entries[i]).entry])]
         ELSE [exc |-> "", entries |-> <<>>]

\* QueryHistory._save_history: the document written (file writes succeed)
_save_history(es) ==
    [jtype |-> "object", entries |-> [i \in 1..Len(es) |-> to_dict(es[i])]]

----------------------------------------------------------------------------
(* The history files a store can be constructed on *)

FileTimes == {0, 1}
\* the time of construction: no entry of the file is from the future
Clock0 == CHOOSE t \in FileTimes : \A u \in FileTimes : u <= t
FileKeys == { <<"a.com", "A", None>>, <<"a.com", "MX", None>> }

ValidDicts ==
    { [jtype |-> "object", domain |-> k[1], record_type |-> k[2], nameserver |-> k[3],
       timestamp |-> <<"iso", t>>, status |-> "NOERROR", query_time_ms |-> Some(45)] :
         k \in FileKeys, t \in FileTimes }

BadDicts ==
    { [jtype |-> "number"],                                       \* entry not an object
      [jtype |-> "object", record_type |-> "A", nameserver |-> None,
       timestamp |-> <<"iso", 0>>, status |-> "NOERROR",
       query_time_ms |-> None],                                   \* no "domain"
      [jtype |-> "object", domain |-> "a.com", record_type |-> "A", nameserver |-> None,
       timestamp |-> <<"iso", 0>>, query_time_ms |-> None],       \* no "status"
      [jtype |-> "object", domain |-> "a.com", record_type |-> "XYZ", nameserver |-> None,
       timestamp |-> <<"iso", 0>>, status |-> "NOERROR",
       query_time_ms |-> None],                                   \* unknown record type
      [jtype |-> "object", domain |-> "a.com", record_type |-> "A", nameserver |-> None,
       timestamp |-> <<"text", 0>>, status |-> "NOERROR",
       query_time_ms |-> None],                                   \* unparsable timestamp
      [jtype |-> "object", domain |-> "a.com", record_type |-> "A", nameserver |-> None,
       timestamp |-> <<"number", 0>>, status |-> "NOERROR",
       query_time_ms |-> None] }                                  \* timestamp not a string

SeqsUpTo(S, n) == UNION { [1..k -> S] : k \in 0..n }

Files ==
    { [jtype |-> "missing"], [jtype |-> "invalid"], [jtype |-> "array"],
      [jtype |-> "object"] }
      \cup { [jtype |-> "object", entries |-> es] :
               es \in SeqsUpTo(ValidDicts \cup BadDicts, MaxFileLen) }

InitMaxEntries == {1, 2}
LimitArgs == {0, 1, 2}
DaysArgs == {0, 1}

----------------------------------------------------------------------------
(* QueryHistory *)

SameKey(e, domain, record_type, nameserver) ==
    /\ Lower(e.domain) = Lower(domain)
    /\ e.record_type = record_type
    /\ e.nameserver = nameserver

\* the condition of the loop with the domains compared as they are spelled
IsRecentDuplicate_case_sensitive(e, now, domain, record_type, nameserver) ==
    /\ e.domain = domain
    /\ e.record_type = record_type
    /\ e.nameserver = nameserver
    /\ (now - e.timestamp) < RecentThreshold

\* the condition of the loop of add_entry on entry e
IsRecentDuplicate(e, now, domain, record_type, nameserver) ==
    /\ SameKey(e, domain, record_type, nameserver)
    /\ (now - e.timestamp) < RecentThreshold

\* the index at which the loop of add_entry stops, 0 when it runs to the end
FirstDuplicate(es, now, domain, record_type, nameserver) ==
    LET hits == { i \in 1..Len(es) :
                    IsRecentDuplicate(es[i], now, domain, record_type, nameserver) }
    IN  IF hits = {} THEN 0 ELSE CHOOSE i \in hits : \A j \in hits : i <= j

\* The store is the record [entries, max_entries, file]: _entries, max_entries
\* and the content of the history file.

Saved(st) == [st EXCEPT !.file = _save_history(st.entries)]

\* add_entry with the duplicate updated where it stands
add_entry_in_place(st, now, domain, record_type, nameserver, status, query_time_ms) ==
    LET i == FirstDuplicate(st.entries, now, domain, record_type, nameserver)
        e == HistoryEntry(domain, record_type, nameserver, now, status, query_time_ms)
        inserted == <<e>> \o st.entries
    IN  IF i # 0
        THEN Saved([st EXCEPT !.entries = [st.entries EXCEPT ![i] = e]])
        ELSE Saved([st EXCEPT !.entries =
                      IF Len(inserted) > st.max_entries
                      THEN SliceTo(inserted, st.max_entries) ELSE inserted])

\* QueryHistory.add_entry
add_entry(st, now, domain, record_type, nameserver, status, query_time_ms) ==
    LET i == FirstDuplicate(st.entries, now, domain, record_type, nameserver)
        e == HistoryEntry(domain, record_type, nameserver, now, status, query_time_ms)
        inserted == <<e>> \o st.entries
    IN  IF i # 0
        THEN Saved([st EXCEPT !.entries = <<e>> \o RemoveAt(st.entries, i)])
        ELSE Saved([st EXCEPT !.entries =
                      IF Len(inserted) > st.max_entries
                      THEN SliceTo(inserted, st.max_entries) ELSE inserted])

\* QueryHistory.clear_history
clear_history(st) == Saved([st EXCEPT !.entries = <<>>])

\* remove_entry without the lower bound of the index test
remove_entry_from_end(st, index) ==
    IF index < Len(st.entries)
    THEN [st |-> Saved([st EXCEPT !.entries =
                     RemoveAt(st.entries,
                              IF index >= 0 THEN index + 1 ELSE Len(st.entries) + index + 1)]),
          ret |-> TRUE]
    ELSE [st |-> st, ret |-> FALSE]

\* QueryHistory.remove_entry: the store and the value returned
remove_entry(st, index) ==
    IF 0 <= index /\ index < Len(st.entries)
    THEN [st |-> Saved([st EXCEPT !.entries = RemoveAt(st.entries, index + 1)]),
          ret |-> TRUE]
    ELSE [st |-> st, ret |-> FALSE]

RECURSIVE KeepNewer(_, _)
KeepNewer(es, cutoff) ==
    IF es = <<>> THEN <<>>
    ELSE IF Head(es).timestamp > cutoff
         THEN <<Head(es)>> \o KeepNewer(Tail(es), cutoff)
         ELSE KeepNewer(Tail(es), cutoff)

\* cleanup_old_entries without the save
cleanup_old_entries_unsaved(st, now, days_to_keep) ==
    IF days_to_keep <= 0 THEN st
    ELSE [st EXCEPT !.entries = KeepNewer(st.entries, now - days_to_keep * MinutesPerDay)]

\* cleanup_old_entries that keeps an entry as old as the cutoff
cleanup_old_entries_inclusive(st, now, days_to_keep) ==
    IF days_to_keep <= 0 THEN st
    ELSE LET cutoff == now - days_to_keep * MinutesPerDay
             kept == SelectSeq(st.entries, LAMBDA e : e.timestamp >= cutoff)
             st2 == [st EXCEPT !.entries = kept]
         IN  IF Len(kept) < Len(st.entries) THEN Saved(st2) ELSE st2

\* QueryHistory.cleanup_old_entries
cleanup_old_entries(st, now, days_to_keep) ==
    IF days_to_keep <= 0 THEN st
    ELSE LET kept == KeepNewer(st.entries, now - days_to_keep * MinutesPerDay)
             st2 == [st EXCEPT !.entries = kept]
         IN  IF Len(kept) < Len(st.entries) THEN Saved(st2) ELSE st2

\* QueryHistory.enforce_limit
enforce_limit(st, max_limit) ==
    IF max_limit <= 0 THEN st
    ELSE IF Len(st.entries) > max_limit
         THEN Saved([st EXCEPT !.entries = SliceTo(st.entries, max_limit)])
         ELSE st

\* QueryHistory.set_max_entries
set_max_entries(st, m) ==
    LET st2 == [st EXCEPT !.max_entries = m]
    IN  IF m > 0 THEN enforce_limit(st2, m) ELSE st2

\* QueryHistory.__init__: the store, and the exception that leaves the constructor
QueryHistory(file, m) ==
    [st |-> [entries |-> _load_history(file).entries, max_entries |-> m, file |-> file],
     exc |-> _load_history(file).exc]

\* the record of one completed operation
Done(op, arg, ret) == [op |-> op, arg |-> arg, ret |-> ret]

\* the latest consecutive additions with pairwise distinct keys, oldest first
ExtendRun(r, e) ==
    LET dups == { i \in 1..Len(r) : SameKey(r[i], e.domain, e.record_type, e.nameserver) }
        from == IF dups = {} THEN 1 ELSE 1 + CHOOSE i \in dups : \A j \in dups : j <= i
    IN  SubSeq(r, from, Len(r)) \o <<e>>

Store == [entries |-> entries, max_entries |-> max_entries, file |-> disk]

SetStore(st) ==
    /\ entries' = st.entries
    /\ max_entries' = st.max_entries
    /\ disk' = st.file

\* the additions made to a store since it was last empty, while they are the only
\* operations on it and at most two
FreshOf(es) == IF es = <<>> THEN Some(<<>>) ELSE None

\* QueryHistory.__init__ on some history file
HistoryInit ==
    /\ clock = Clock0
    /\ ticks = 0
    /\ \E file \in Files, m \in InitMaxEntries :
          /\ entries = QueryHistory(file, m).st.entries
          /\ max_entries = QueryHistory(file, m).st.max_entries
          /\ disk = QueryHistory(file, m).st.file
          /\ ctor = QueryHistory(file, m).exc
    /\ last = Done("__init__", <<>>, TRUE)
    /\ run = <<>>
    /\ added = None
    /\ fresh = FreshOf(entries)
    /\ dig_available = None
    /\ call = <<>>
    /\ probes = 0
    /\ parser = IdleParser
    /\ fn = NoCall
    /\ view = NoView
    /\ window = NoWindow

\* time passes
Tick ==
    /\ ticks < MaxTicks
    /\ \E d \in TickSteps : clock' = clock + d
    /\ ticks' = ticks + 1
    /\ UNCHANGED <<entries, max_entries, disk, ctor, last, run, added, fresh>>
    /\ UNCHANGED <<evars, pvars, uvars>>

AddEntry ==
    /\ ctor = ""
    /\ \E k \in AddKeys, o \in AddOutcomes :
          LET e == HistoryEntry(k[1], k[2], k[3], clock, o[1], o[2]) IN
          /\ SetStore(add_entry(Store, clock, k[1], k[2], k[3], o[1], o[2]))
          /\ last' = Done("add_entry", <<k[1], k[2], k[3], o[1], o[2]>>, TRUE)
          /\ run' = ExtendRun(run, e)
          /\ added' = Some(e)
          /\ fresh' = IF fresh # None /\ Len(fresh[1]) < 2
                      THEN Some(Append(fresh[1], e)) ELSE None
    /\ UNCHANGED <<clock, ticks, ctor>>
    /\ UNCHANGED <<evars, pvars, uvars>>

RemoveEntry ==
    /\ ctor = ""
    /\ \E index \in -1..Len(entries) :
          /\ SetStore(remove_entry(Store, index).st)
          /\ last' = Done("remove_entry", <<index>>, remove_entry(Store, index).ret)
    /\ run' = <<>>
    /\ fresh' = FreshOf(entries')
    /\ UNCHANGED <<clock, ticks, ctor, added>>
    /\ UNCHANGED <<evars, pvars, uvars>>

ClearHistory ==
    /\ ctor = ""
    /\ SetStore(clear_history(Store))
    /\ last' = Done("clear_history", <<>>, TRUE)
    /\ run' = <<>>
    /\ fresh' = FreshOf(entries')
    /\ UNCHANGED <<clock, ticks, ctor, added>>
    /\ UNCHANGED <<evars, pvars, uvars>>

CleanupOldEntries ==
    /\ ctor = ""
    /\ \E days \in DaysArgs :
          /\ SetStore(cleanup_old_entries(Store, clock, days))
          /\ last' = Done("cleanup_old_entries", <<days>>, TRUE)
    /\ run' = <<>>
    /\ fresh' = FreshOf(entries')
    /\ UNCHANGED <<clock, ticks, ctor, added>>
    /\ UNCHANGED <<evars, pvars, uvars>>

EnforceLimit ==
    /\ ctor = ""
    /\ \E m \in LimitArgs :
          /\ SetStore(enforce_limit(Store, m))
          /\ last' = Done("enforce_limit", <<m>>, TRUE)
    /\ run' = <<>>
    /\ fresh' = FreshOf(entries')
    /\ UNCHANGED <<clock, ticks, ctor, added>>
    /\ UNCHANGED <<evars, pvars, uvars>>

SetMaxEntries ==
    /\ ctor = ""
    /\ \E m \in LimitArgs :
          /\ SetStore(set_max_entries(Store, m))
          /\ last' = Done("set_max_entries", <<m>>, TRUE)
    /\ run' = <<>>
    /\ fresh' = FreshOf(entries')
    /\ UNCHANGED <<clock, ticks, ctor, added>>
    /\ UNCHANGED <<evars, pvars, uvars>>

\* A list the store hands out is either a new list or the store's own list
\* (live): what the caller then does to a live list is done to _entries.

\* get_entries that hands out _entries itself when no limit is given
get_entries_live(st, limit) ==
    IF limit = None THEN [list |-> st.entries, live |-> TRUE]
    ELSE [list |-> SliceTo(st.entries, limit[1]), live |-> FALSE]

\* QueryHistory.get_entries
get_entries(st, limit) ==
    IF limit = None THEN [list |-> st.entries, live |-> FALSE]
    ELSE [list |-> SliceTo(st.entries, limit[1]), live |-> FALSE]

\* the loop of get_recent_domains over the entries es
RECURSIVE RecentDomainsLoop(_, _, _)
RecentDomainsLoop(es, recent_domains, limit) ==
    IF es = <<>> THEN recent_domains
    ELSE IF \E i \in 1..Len(recent_domains) : recent_domains[i] = Head(es).domain
         THEN RecentDomainsLoop(Tail(es), recent_domains, limit)
         ELSE IF Len(recent_domains) + 1 >= limit
              THEN Append(recent_domains, Head(es).domain)
              ELSE RecentDomainsLoop(Tail(es), Append(recent_domains, Head(es).domain), limit)

\* QueryHistory.get_recent_domains
get_recent_domains(st, limit) == RecentDomainsLoop(st.entries, <<>>, limit)

\* the limits callers pass to get_entries and get_recent_domains
EntryLimits == {None} \cup { Some(n) : n \in 0..3 }
DomainLimits == 0..2

\* what a caller does to a list it was handed
ListEdits == {"append", "pop", "reverse"}
Reverse(s) == [i \in 1..Len(s) |-> s[Len(s) + 1 - i]]
Edit(list, edit) ==
    CASE edit = "append" ->
            Append(list, HistoryEntry("b.org", RecordTypeMember("A"), None, 0, "NOERROR", None))
      [] edit = "pop" -> SubSeq(list, 1, Len(list) - 1)
      [] OTHER -> Reverse(list)

\* the record of one completed call that handed out a list
Handed(op, arg, got) == [op |-> op, arg |-> arg, ret |-> got.list, live |-> got.live]

\* a caller gets the entries and changes the list it was handed
GetEntries ==
    /\ ctor = ""
    /\ \E limit \in EntryLimits, edit \in ListEdits :
          LET got == get_entries(Store, limit) IN
          /\ entries' = IF got.live THEN Edit(entries, edit) ELSE entries
          /\ last' = Handed("get_entries", <<limit, edit>>, got)
    /\ UNCHANGED <<max_entries, disk, clock, ticks, ctor, run, added, fresh>>
    /\ UNCHANGED <<evars, pvars, uvars>>

GetRecentDomains ==
    /\ ctor = ""
    /\ \E limit \in DomainLimits :
          last' = Handed("get_recent_domains", <<limit>>,
                         [list |-> get_recent_domains(Store, limit), live |-> FALSE])
    /\ UNCHANGED <<entries, max_entries, disk, clock, ticks, ctor, run, added, fresh>>
    /\ UNCHANGED <<evars, pvars, uvars>>

\* type_counts of get_stats: the dict as the sequence of its items in insertion
\* order, after the loop has run over the entries es
RECURSIVE TypeCounts(_)
TypeCounts(es) ==
    IF es = <<>> THEN <<>>
    ELSE LET before == TypeCounts(SubSeq(es, 1, Len(es) - 1))
             type_name == es[Len(es)].record_type[2]
             at == { i \in 1..Len(before) : before[i][1] = type_name }
         IN  IF at = {} THEN Append(before, <<type_name, 1>>)
             ELSE [i \in 1..Len(before) |->
                      IF i \in at THEN <<type_name, before[i][2] + 1>> ELSE before[i]]

\* the key of the largest count that comes last
MaxKey_last(items) ==
    LET best == { i \in 1..Len(items) : \A j \in 1..Len(items) : items[j][2] <= items[i][2] }
    IN  items[CHOOSE i \in best : \A j \in best : j <= i][1]

\* max(type_counts, key=type_counts.get): the first key of the largest count
MaxKey(items) ==
    LET best == { i \in 1..Len(items) : \A j \in 1..Len(items) : items[j][2] <= items[i][2] }
    IN  items[CHOOSE i \in best : \A j \in best : i <= j][1]

\* the float a / b * 100, kept as the fraction num / den
Percent(a, b) == [num |-> a * 100, den |-> b]

\* QueryHistory.get_stats
get_stats(st) ==
    IF st.entries = <<>>
    THEN [total_queries |-> 0, unique_domains |-> 0, most_common_type |-> None,
          success_rate |-> [num |-> 0, den |-> 1]]
    ELSE LET type_counts == TypeCounts(st.entries)
             successful_queries ==
                 Cardinality({ i \in 1..Len(st.entries) : st.entries[i].status = "NOERROR" })
             unique_domains == { st.entries[i].domain : i \in 1..Len(st.entries) }
         IN  [total_queries |-> Len(st.entries),
              unique_domains |-> Cardinality(unique_domains),
              most_common_type |-> Some(MaxKey(type_counts)),
              success_rate |-> Percent(successful_queries, Len(st.entries)),
              type_distribution |-> type_counts]

\* the histories get_stats is called on: up to MaxStatLen entries, newest first
StatDomains == {"a.com", "A.com"}
StatTypes == {"A", "MX", "AAAA"}
StatStatuses == {"NOERROR", "NXDOMAIN"}
StatEntries ==
    { HistoryEntry(d, RecordTypeMember(t), None, 0, s, None) :
        d \in StatDomains, t \in StatTypes, s \in StatStatuses }

\* a store that holds one of those histories, as saved
StatsInit ==
    /\ entries \in SeqsUpTo(StatEntries, MaxStatLen)
    /\ max_entries = 100
    /\ disk = _save_history(entries)
    /\ clock = Clock0
    /\ ticks = 0
    /\ ctor = ""
    /\ last = Done("__init__", <<>>, TRUE)
    /\ run = <<>>
    /\ added = None
    /\ fresh = None
    /\ dig_available = None
    /\ call = <<>>
    /\ probes = 0
    /\ parser = IdleParser
    /\ fn = NoCall
    /\ view = NoView
    /\ window = NoWindow

GetStats ==
    /\ ctor = ""
    /\ last.op = "__init__"
    /\ last' = Handed("get_stats", <<>>, [list |-> get_stats(Store), live |-> FALSE])
    /\ UNCHANGED <<entries, max_entries, disk, clock, ticks, ctor, run, added, fresh>>
    /\ UNCHANGED <<evars, pvars, uvars>>

----------------------------------------------------------------------------
(* Texts: sequences of tokens *)

Whitespace == {" ", "\n", "\t"}

\* str.strip()
RECURSIVE LStrip(_)
LStrip(s) == IF s # <<>> /\ Head(s) \in Whitespace THEN LStrip(Tail(s)) ELSE s

RECURSIVE RStrip(_)
RStrip(s) ==
    IF s # <<>> /\ s[Len(s)] \in Whitespace THEN RStrip(SubSeq(s, 1, Len(s) - 1)) ELSE s

Strip(s) == RStrip(LStrip(s))

\* str.lower()
LowerToken(t) ==
    CASE t = "Network" -> "network"
      [] t = "Unreachable" -> "unreachable"
      [] t = "CONNECTION" -> "connection"
      [] t = "TIMED" -> "timed"
      [] t = "OUT" -> "out"
      [] OTHER -> t

LowerText(s) == [i \in 1..Len(s) |-> LowerToken(s[i])]

\* needle in hay
Contains(hay, needle) ==
    \E i \in 0..(Len(hay) - Len(needle)) : SubSeq(hay, i + 1, i + Len(needle)) = needle

NetworkUnreachable == <<"network", " ", "unreachable">>
ConnectionTimedOut == <<"connection", " ", "timed", " ", "out">>

Error(type, msg) == [type |-> type, msg |-> msg]

\* the exception a callback raises when it fails
CallbackError == Error("CallbackError", <<"callback failed">>)
\* an exception of subprocess.run other than TimeoutExpired
SpawnError == Error("OSError", <<"spawn failed">>)
\* an exception of the probe that check_dig_available does not catch
ProbeError == Error("PermissionError", <<"probe failed">>)

----------------------------------------------------------------------------
(* DigExecutor *)

\* the outcomes of the query process
Exit(code, out, err) == [kind |-> "exit", returncode |-> code, stdout |-> out, stderr |-> err]
Answer == <<";; ANSWER SECTION:", "\n">>
ProcOutcomes ==
    { Exit(0, Answer, <<>>),
      Exit(0, <<>>, <<>>),
      Exit(0, Answer, <<";;", " ", "network", " ", "unreachable", "\n">>),
      Exit(1, Answer, <<"dig: couldn't get address", "\n">>),
      Exit(1, <<"\n">>, <<"dig: couldn't get address", "\n">>),
      Exit(1, <<>>, <<>>),
      Exit(1, <<>>, <<"dig: couldn't get address", "\n">>),
      Exit(1, <<>>, <<";;", " ", "Network", " ", "Unreachable", "\n">>),
      Exit(1, <<>>, <<"CONNECTION", " ", "TIMED", " ", "OUT">>),
      [kind |-> "timeout", returncode |-> 0, stdout |-> <<>>, stderr |-> <<>>],
      [kind |-> "error", returncode |-> 0, stdout |-> <<>>, stderr |-> <<>>] }

\* the outcomes of the probe process "dig -v"
ProbeOutcomes == {"ran", "FileNotFoundError", "TimeoutExpired", "PermissionError"}

\* the domains callers pass
Domains == { <<>>, <<" ">>, <<" ", "example.com", " ">> }

\* what a callback does when it is invoked
CallbackBehaviours == {"return", "raise"}

Result(output, error) == [output |-> output, error |-> error]

\* the worker with a non-zero exit code always a failure
WorkerResult_exit_only(p) ==
    IF p.returncode = 0 THEN Result(p.stdout, None)
    ELSE Result(<<>>, Some(Error("RuntimeError",
             <<"dig command failed: ">> \o
                 (IF p.stderr # <<>> THEN Strip(p.stderr) ELSE <<"dig command failed">>))))

\* the worker with the network phrases searched in the text as it is
WorkerResult_case_sensitive(p) ==
    IF p.returncode = 0 THEN Result(p.stdout, None)
    ELSE IF Strip(p.stdout) # <<>> THEN Result(p.stdout, None)
    ELSE LET error_msg == IF p.stderr # <<>> THEN Strip(p.stderr)
                          ELSE <<"dig command failed">>
         IN  IF \/ Contains(error_msg, NetworkUnreachable)
                \/ Contains(error_msg, ConnectionTimedOut)
             THEN Result(<<>>, Some(Error("RuntimeError",
                      <<"Network connection failed. Please check your internet connection.">>)))
             ELSE Result(<<>>, Some(Error("RuntimeError",
                      <<"dig command failed: ">> \o error_msg)))

\* lines 120-135 of _execute_in_thread: the (output, error) of a finished process
WorkerResult(p) ==
    IF p.returncode = 0 THEN Result(p.stdout, None)
    ELSE IF Strip(p.stdout) # <<>> THEN Result(p.stdout, None)
    ELSE LET error_msg == IF p.stderr # <<>> THEN Strip(p.stderr)
                          ELSE <<"dig command failed">>
         IN  IF \/ Contains(LowerText(error_msg), NetworkUnreachable)
                \/ Contains(LowerText(error_msg), ConnectionTimedOut)
             THEN Result(<<>>, Some(Error("RuntimeError",
                      <<"Network connection failed. Please check your internet connection.">>)))
             ELSE Result(<<>>, Some(Error("RuntimeError",
                      <<"dig command failed: ">> \o error_msg)))

\* lines 229-235 of execute_dig_sync
SyncResult(p) ==
    IF p.returncode = 0 \/ Strip(p.stdout) # <<>> THEN Result(p.stdout, None)
    ELSE LET error_msg == IF p.stderr # <<>> THEN Strip(p.stderr)
                          ELSE <<"dig command failed">>
         IN  Result(<<>>, Some(Error("RuntimeError", <<"dig command failed: ">> \o error_msg)))

\* the worker without the except clause for TimeoutExpired
WorkerDelivery_no_timeout_clause(p) ==
    CASE p.kind = "exit" -> [result |-> WorkerResult(p), in_try |-> TRUE]
      [] p.kind = "timeout" ->
            [result |-> Result(<<>>, Some(Error("TimeoutExpired", <<"timed out after 30 seconds">>))),
             in_try |-> FALSE]
      [] OTHER -> [result |-> Result(<<>>, Some(SpawnError)), in_try |-> FALSE]

\* what _execute_in_thread first passes to the callback once the process run has
\* ended, and whether that call is made inside the try block
WorkerDelivery(p) ==
    CASE p.kind = "exit" -> [result |-> WorkerResult(p), in_try |-> TRUE]
      [] p.kind = "timeout" ->
            [result |-> Result(<<>>, Some(Error("TimeoutError",
                 <<"DNS query timed out. Please check your network connection.">>))),
             in_try |-> FALSE]
      [] OTHER -> [result |-> Result(<<>>, Some(SpawnError)), in_try |-> FALSE]

\* what execute_dig_sync returns once the process run has ended
SyncReturn(p) ==
    CASE p.kind = "exit" -> SyncResult(p)
      [] p.kind = "timeout" ->
            Result(<<>>, Some(Error("TimeoutError", <<"DNS query timed out">>)))
      [] OTHER -> Result(<<>>, Some(SpawnError))

Invocation(result, thread) ==
    [output |-> result.output, error |-> result.error, thread |-> thread]

\* the except clauses of _execute_in_thread around a callback invocation: the
\* invocations made and the exception that leaves the worker, for a first
\* invocation with `result` that behaves as b1 and a second that behaves as b2
Deliver(result, in_try, b1, b2) ==
    IF b1 = "return"
    THEN [invs |-> <<Invocation(result, "worker")>>, exc |-> None]
    ELSE IF ~in_try
    THEN [invs |-> <<Invocation(result, "worker")>>, exc |-> Some(CallbackError)]
    ELSE [invs |-> <<Invocation(result, "worker"),
                     Invocation(Result(<<>>, Some(CallbackError)), "worker")>>,
          exc |-> IF b2 = "return" THEN None ELSE Some(CallbackError)]

\* the domain check of execute_dig without the strip
IsBlankDomain_unstripped(domain) == domain = <<>>

\* line 67 of execute_dig: not domain or not domain.strip()
IsBlankDomain(domain) == domain = <<>> \/ Strip(domain) = <<>>

IdleCall ==
    [pc |-> "idle", mode |-> "", domain |-> <<>>, has_callback |-> FALSE,
     thread_started |-> FALSE, spawned |-> 0, cmd_domain |-> <<>>,
     available |-> None, proc |-> None, invs |-> <<>>, ret |-> None, exc |-> None]

\* DigExecutor.__init__
ExecutorInit ==
    /\ dig_available = None
    /\ call = [c \in Calls |-> IdleCall]
    /\ probes = 0
    /\ parser = IdleParser
    /\ fn = NoCall
    /\ view = NoView
    /\ window = NoWindow
    /\ entries = <<>>
    /\ max_entries = 1
    /\ disk = [jtype |-> "missing"]
    /\ clock = Clock0
    /\ ticks = 0
    /\ ctor = ""
    /\ last = Done("__init__", <<>>, TRUE)
    /\ run = <<>>
    /\ added = None
    /\ fresh = None

\* execute_dig(domain, callback=callback) up to its return
ExecuteDig(c) ==
    /\ call[c].pc = "idle"
    /\ \E domain \in Domains, has_callback \in BOOLEAN, b \in CallbackBehaviours :
          LET args == [call[c] EXCEPT !.mode = "async", !.domain = domain,
                                      !.has_callback = has_callback]
          IN
          call' = [call EXCEPT ![c] =
              IF ~has_callback
              THEN [args EXCEPT !.pc = "returned",
                                !.exc = Some(Error("ValueError",
                                            <<"Callback function is required">>))]
              ELSE IF IsBlankDomain(domain)
              THEN [args EXCEPT !.pc = "returned",
                                !.invs = <<Invocation(Result(<<>>,
                                            Some(Error("ValueError",
                                                <<"Domain name cannot be empty">>))),
                                            "caller")>>,
                                !.exc = IF b = "raise" THEN Some(CallbackError) ELSE None]
              ELSE [args EXCEPT !.pc = "started", !.thread_started = TRUE,
                                !.cmd_domain = Strip(domain)]]
    /\ UNCHANGED <<dig_available, probes>>
    /\ UNCHANGED <<hvars, pvars, uvars>>

\* execute_dig_sync(domain) up to check_dig_available
ExecuteDigSync(c) ==
    /\ call[c].pc = "idle"
    /\ \E domain \in Domains :
          call' = [call EXCEPT ![c] =
              [@ EXCEPT !.mode = "sync", !.domain = domain, !.pc = "started",
                        !.cmd_domain = domain]]
    /\ UNCHANGED <<dig_available, probes>>
    /\ UNCHANGED <<hvars, pvars, uvars>>

\* check_dig_available up to the probe: the cached flag is read
CheckDigAvailable(c) ==
    /\ call[c].pc = "started"
    /\ IF dig_available # None
       THEN /\ call' = [call EXCEPT ![c].pc =
                           IF dig_available[1] THEN "available" ELSE "unavailable",
                                     ![c].available = dig_available]
            /\ probes' = probes
       ELSE /\ call' = [call EXCEPT ![c].pc = "probing"]
            /\ probes' = probes + 1
    /\ UNCHANGED dig_available
    /\ UNCHANGED <<hvars, pvars, uvars>>

\* the probe process ends: check_dig_available sets the flag and returns, or raises
ProbeDone(c) ==
    /\ call[c].pc = "probing"
    /\ \E o \in ProbeOutcomes, b \in CallbackBehaviours :
          CASE o = "ran" ->
                  /\ dig_available' = Some(TRUE)
                  /\ call' = [call EXCEPT ![c].pc = "available",
                                           ![c].available = Some(TRUE)]
            [] o \in {"FileNotFoundError", "TimeoutExpired"} ->
                  /\ dig_available' = Some(FALSE)
                  /\ call' = [call EXCEPT ![c].pc = "unavailable",
                                           ![c].available = Some(FALSE)]
            [] OTHER ->
                  /\ dig_available' = dig_available
                  /\ call' = [call EXCEPT ![c] =
                        IF @.mode = "sync"
                        THEN [@ EXCEPT !.pc = "done",
                                       !.ret = Some(Result(<<>>, Some(ProbeError)))]
                        ELSE LET d == Deliver(Result(<<>>, Some(ProbeError)), FALSE, b, b)
                             IN  [@ EXCEPT !.pc = "done", !.invs = d.invs, !.exc = d.exc]]
    /\ UNCHANGED probes
    /\ UNCHANGED <<hvars, pvars, uvars>>

\* the flag is false and the query process is run all the same
Unavailable_runs_query(c) ==
    /\ call[c].pc = "unavailable"
    /\ call' = [call EXCEPT ![c].pc = "running", ![c].spawned = @ + 1]
    /\ UNCHANGED <<dig_available, probes>>
    /\ UNCHANGED <<hvars, pvars, uvars>>

\* the flag is false: the call completes without a process
Unavailable(c) ==
    /\ call[c].pc = "unavailable"
    /\ \E b1 \in CallbackBehaviours, b2 \in CallbackBehaviours :
          LET r == Result(<<>>, Some(Error("RuntimeError", <<"dig command is not available">>)))
              d == Deliver(r, TRUE, b1, b2)
          IN  call' = [call EXCEPT ![c] =
                  IF @.mode = "sync"
                  THEN [@ EXCEPT !.pc = "done", !.ret = Some(r)]
                  ELSE [@ EXCEPT !.pc = "done", !.invs = d.invs, !.exc = d.exc]]
    /\ UNCHANGED <<dig_available, probes>>
    /\ UNCHANGED <<hvars, pvars, uvars>>

\* the flag is true: the command is built and the query process is spawned
SpawnProcess(c) ==
    /\ call[c].pc = "available"
    /\ call' = [call EXCEPT ![c].pc = "running", ![c].spawned = @ + 1]
    /\ UNCHANGED <<dig_available, probes>>
    /\ UNCHANGED <<hvars, pvars, uvars>>

\* subprocess.run without its timeout: a process that does not end blocks the call
ProcessDone_without_timeout(c) ==
    /\ call[c].pc = "running"
    /\ \E p \in ProcOutcomes, b1 \in CallbackBehaviours, b2 \in CallbackBehaviours :
          LET w == WorkerDelivery(p)
              d == Deliver(w.result, w.in_try, b1, b2)
          IN  call' = [call EXCEPT ![c] =
                  IF p.kind = "timeout"
                  THEN [@ EXCEPT !.pc = "blocked"]
                  ELSE IF @.mode = "sync"
                  THEN [@ EXCEPT !.pc = "done", !.proc = Some(p),
                                 !.ret = Some(SyncReturn(p))]
                  ELSE [@ EXCEPT !.pc = "done", !.proc = Some(p),
                                 !.invs = d.invs, !.exc = d.exc]]
    /\ UNCHANGED <<dig_available, probes>>
    /\ UNCHANGED <<hvars, pvars, uvars>>

\* subprocess.run returns or raises: the rest of the worker, or of execute_dig_sync
ProcessDone(c) ==
    /\ call[c].pc = "running"
    /\ \E p \in ProcOutcomes, b1 \in CallbackBehaviours, b2 \in CallbackBehaviours :
          LET w == WorkerDelivery(p)
              d == Deliver(w.result, w.in_try, b1, b2)
          IN  call' = [call EXCEPT ![c] =
                  IF @.mode = "sync"
                  THEN [@ EXCEPT !.pc = "done", !.proc = Some(p),
                                 !.ret = Some(SyncReturn(p))]
                  ELSE [@ EXCEPT !.pc = "done", !.proc = Some(p),
                                 !.invs = d.invs, !.exc = d.exc]]
    /\ UNCHANGED <<dig_available, probes>>
    /\ UNCHANGED <<hvars, pvars, uvars>>

----------------------------------------------------------------------------
(* dig output: texts in chunks *)

\* A text that the parser reads is a sequence of chunks.  A chunk stands for
\* one character (a space, a tab, a newline, a punctuation mark) or for a
\* maximal run of characters of one kind: digits, letters, or an opaque run
\* of characters other than whitespace, ';' and '#' that does not end in '.'
\* (an address, a host name).  Two chunks of the same kind are never adjacent.

\* the runs of digits, with int() of each
Numerals == { <<"0", 0>>, <<"8", 8>>, <<"10", 10>>, <<"53", 53>>, <<"300", 300>> }
DigitChunks == { n[1] : n \in Numerals }
IntOf(chunk) == (CHOOSE n \in Numerals : n[1] = chunk)[2]
\* str(n)
DigitsOf(n) == (CHOOSE m \in Numerals : m[2] = n)[1]

LetterChunks ==
    RecordTypeValues \cup
    { "IN", "CH", "HS", "XX", "XYZ", "mx", "bogus", "abc", "comment", "status", "NXDOMAIN",
      "SERVFAIL", "Query", "time", "msec", "SERVER", "ANSWER", "AUTHORITY", "ADDITIONAL",
      "SECTION", "OPT", "PSEUDOSECTION", "v", "spf1" }
OpaqueChunks == { "example.com", "mail.example.com", "ns.example.com", "1.2.3.4", "8.8.8.8" }

\* \w+ : letters, digits and '_'
IsWordChunk(c) == c \in LetterChunks \cup DigitChunks \cup {"_"}
IsSpace(c) == c \in Whitespace

\* str.upper() on the letters of the model
UpperChunk(c) ==
    CASE c = "mx" -> "MX"
      [] c = "bogus" -> "BOGUS"
      [] c = "abc" -> "ABC"
      [] c = "comment" -> "COMMENT"
      [] c = "status" -> "STATUS"
      [] c = "time" -> "TIME"
      [] c = "msec" -> "MSEC"
      [] c = "v" -> "V"
      [] c = "spf1" -> "SPF1"
      [] c = "Query" -> "QUERY"
      [] c = "example.com" -> "EXAMPLE.COM"
      [] OTHER -> c

UpperText(s) == [i \in 1..Len(s) |-> UpperChunk(s[i])]

\* str.rstrip(".")
RECURSIVE RStripDots(_)
RStripDots(s) ==
    IF s # <<>> /\ s[Len(s)] = "." THEN RStripDots(SubSeq(s, 1, Len(s) - 1)) ELSE s

\* str.split("\n")
RECURSIVE SplitLines(_)
SplitLines(s) ==
    LET at == { i \in 1..Len(s) : s[i] = "\n" } IN
    IF at = {} THEN <<s>>
    ELSE LET i == CHOOSE k \in at : \A j \in at : k <= j
         IN  <<SubSeq(s, 1, i - 1)>> \o SplitLines(SubSeq(s, i + 1, Len(s)))

\* the index of the first chunk of s at or after i that is not whitespace,
\* Len(s) + 1 when there is none
RECURSIVE SkipSpace(_, _)
SkipSpace(s, i) == IF i <= Len(s) /\ IsSpace(s[i]) THEN SkipSpace(s, i + 1) ELSE i

\* the index after the run of chunks of s from i on that are not whitespace
RECURSIVE SkipNonSpace(_, _)
SkipNonSpace(s, i) == IF i <= Len(s) /\ ~IsSpace(s[i]) THEN SkipNonSpace(s, i + 1) ELSE i

\* the index after the run of word chunks of s from i on
RECURSIVE SkipWord(_, _)
SkipWord(s, i) == IF i <= Len(s) /\ IsWordChunk(s[i]) THEN SkipWord(s, i + 1) ELSE i

\* int(text): [exc |-> "", value |-> n] or [exc |-> "ValueError"]
int(text) ==
    LET t == Strip(text) IN
    IF Len(t) = 1 /\ t[1] \in DigitChunks THEN [exc |-> "", value |-> IntOf(t[1])]
    ELSE IF Len(t) = 2 /\ t[1] = "+" /\ t[2] \in DigitChunks
         THEN [exc |-> "", value |-> IntOf(t[2])]
    ELSE IF Len(t) = 2 /\ t[1] = "-" /\ t[2] \in DigitChunks
         THEN [exc |-> "", value |-> 0 - IntOf(t[2])]
    ELSE [exc |-> "ValueError"]

\* RecordType(text): the member, or ValueError
RecordType(text) ==
    IF Len(text) = 1 /\ text[1] \in RecordTypeValues
    THEN [exc |-> "", value |-> RecordTypeMember(text[1])]
    ELSE [exc |-> "ValueError"]

----------------------------------------------------------------------------
(* The data models *)

\* A constructor gives [exc |-> "", value |-> the object], or [exc |-> the
\* exception it raises].  pydantic's ValidationError is a ValueError.
IsValueError(exc) == exc \in {"ValueError", "ValidationError"}

\* DNSRecord without the validator of ttl
DNSRecord_any_ttl(name, ttl, record_class, record_type, value) ==
    [exc |-> "",
     value |-> [model |-> "DNSRecord", name |-> RStripDots(name), ttl |-> ttl,
                record_class |-> record_class, record_type |-> record_type,
                value |-> RStripDots(value)]]

\* DNSRecord without the validator of name and value
DNSRecord_keeps_dots(name, ttl, record_class, record_type, value) ==
    IF ttl < 0 THEN [exc |-> "ValidationError"]
    ELSE [exc |-> "",
          value |-> [model |-> "DNSRecord", name |-> name, ttl |-> ttl,
                     record_class |-> record_class, record_type |-> record_type,
                     value |-> value]]

\* DNSRecord(name=, ttl=, record_class=, record_type=, value=)
DNSRecord(name, ttl, record_class, record_type, value) ==
    IF ttl < 0 THEN [exc |-> "ValidationError"]
    ELSE [exc |-> "",
          value |-> [model |-> "DNSRecord", name |-> RStripDots(name), ttl |-> ttl,
                     record_class |-> record_class, record_type |-> record_type,
                     value |-> RStripDots(value)]]

\* MXRecord without the validator of priority
MXRecord_any_priority(name, ttl, record_class, priority, mail_server, value) ==
    IF ttl < 0 THEN [exc |-> "ValidationError"]
    ELSE [exc |-> "",
          value |-> [model |-> "MXRecord", name |-> RStripDots(name), ttl |-> ttl,
                     record_class |-> record_class, record_type |-> RecordTypeMember("MX"),
                     value |-> RStripDots(value), priority |-> priority,
                     mail_server |-> RStripDots(mail_server)]]

\* MXRecord(name=, ttl=, record_class=, priority=, mail_server=, value=)
MXRecord(name, ttl, record_class, priority, mail_server, value) ==
    IF ttl < 0 \/ priority < 0 THEN [exc |-> "ValidationError"]
    ELSE [exc |-> "",
          value |-> [model |-> "MXRecord", name |-> RStripDots(name), ttl |-> ttl,
                     record_class |-> record_class, record_type |-> RecordTypeMember("MX"),
                     value |-> RStripDots(value), priority |-> priority,
                     mail_server |-> RStripDots(mail_server)]]

\* DigResponse(...): query_time, the time of the parse, is left out
DigResponse(query_domain, query_type, server, query_time_ms, status, answer_section, authority_section, additional_section) ==
    IF query_time_ms # None /\ query_time_ms[1] < 0 THEN [exc |-> "ValidationError"]
    ELSE [exc |-> "",
          value |-> [query_domain |-> RStripDots(query_domain), query_type |-> query_type,
                     server |-> IF server = None THEN None ELSE Some(Strip(server[1])),
                     query_time_ms |-> query_time_ms, status |-> status,
                     answer_section |-> answer_section,
                     authority_section |-> authority_section,
                     additional_section |-> additional_section]]

----------------------------------------------------------------------------
(* DigParser *)

\* A method that returns Optional gives [exc |-> "", value |-> None or Some(x)],
\* or [exc |-> the exception that leaves it].
Returns(x) == [exc |-> "", value |-> x]
Raises(exc) == [exc |-> exc]

\* value.split(None, 1)
SplitOnce(value) ==
    LET b == SkipSpace(value, 1)
        e == SkipNonSpace(value, b)
        r == SkipSpace(value, e)
    IN  IF b > Len(value) THEN <<>>
        ELSE IF r > Len(value) THEN <<SubSeq(value, b, e - 1)>>
        ELSE <<SubSeq(value, b, e - 1), SubSeq(value, r, Len(value))>>

\* DigParser._parse_mx_record
_parse_mx_record(name, ttl, record_class, value) ==
    LET parts == SplitOnce(value) IN
    IF Len(parts) # 2 THEN Returns(None)
    ELSE LET priority == int(parts[1]) IN
         IF priority.exc # "" THEN Returns(None)
         ELSE IF int(ttl).exc # "" THEN Returns(None)
         ELSE LET made == MXRecord(name, int(ttl).value, record_class, priority.value,
                                   parts[2], value)
              IN  IF made.exc = "" THEN Returns(Some(made.value))
                  ELSE IF IsValueError(made.exc) THEN Returns(None)
                  ELSE Raises(made.exc)

\* record_pattern.match(line): the five groups, or None
RecordMatch(line) ==
    LET e1 == SkipNonSpace(line, 1)
        s2 == SkipSpace(line, e1)
        s3 == SkipSpace(line, s2 + 1)
        s4 == SkipSpace(line, s3 + 1)
        e4 == SkipWord(line, s4)
        s5 == SkipSpace(line, e4)
    IN  IF /\ e1 > 1 /\ s2 > e1
           /\ s2 <= Len(line) /\ line[s2] \in DigitChunks /\ s3 > s2 + 1
           /\ s3 <= Len(line) /\ line[s3] \in {"IN", "CH", "HS"} /\ s4 > s3 + 1
           /\ e4 > s4 /\ s5 > e4
           /\ s5 <= Len(line)
        THEN Some([name |-> SubSeq(line, 1, e1 - 1), ttl |-> <<line[s2]>>,
                   record_class |-> line[s3], record_type |-> SubSeq(line, s4, e4 - 1),
                   value |-> SubSeq(line, s5, Len(line))])
        ELSE None

\* _parse_record_line with an except clause for KeyError only
_parse_record_line_uncaught(line) ==
    LET m == RecordMatch(line) IN
    IF m = None THEN Returns(None)
    ELSE IF m[1].record_type = <<"MX">>
         THEN _parse_mx_record(m[1].name, m[1].ttl, m[1].record_class, m[1].value)
    ELSE IF int(m[1].ttl).exc # "" THEN Raises(int(m[1].ttl).exc)
    ELSE IF RecordType(m[1].record_type).exc # "" THEN Raises(RecordType(m[1].record_type).exc)
    ELSE LET made == DNSRecord(m[1].name, int(m[1].ttl).value, m[1].record_class,
                               RecordType(m[1].record_type).value, m[1].value)
         IN  IF made.exc = "" THEN Returns(Some(made.value)) ELSE Raises(made.exc)

\* DigParser._parse_record_line
_parse_record_line(line) ==
    LET m == RecordMatch(line)
        Caught(exc) == IF IsValueError(exc) \/ exc = "KeyError" THEN Returns(None)
                       ELSE Raises(exc)
    IN
    IF m = None THEN Returns(None)
    ELSE IF m[1].record_type = <<"MX">>
         THEN LET mx == _parse_mx_record(m[1].name, m[1].ttl, m[1].record_class, m[1].value)
              IN  IF mx.exc = "" THEN mx ELSE Caught(mx.exc)
    ELSE IF int(m[1].ttl).exc # "" THEN Caught(int(m[1].ttl).exc)
    ELSE IF RecordType(m[1].record_type).exc # "" THEN Caught(RecordType(m[1].record_type).exc)
    ELSE LET made == DNSRecord(m[1].name, int(m[1].ttl).value, m[1].record_class,
                               RecordType(m[1].record_type).value, m[1].value)
         IN  IF made.exc = "" THEN Returns(Some(made.value)) ELSE Caught(made.exc)

\* pattern.search(output): the least index at which the pattern matches, 0 when none
FirstOf(S) == IF S = {} THEN 0 ELSE CHOOSE i \in S : \A j \in S : i <= j

\* status:\s*(\w+) matches at chunk i, the chunk that ends in "status"
StatusAt(output, i) ==
    /\ output[i] = "status"
    /\ i + 1 <= Len(output) /\ output[i + 1] = ":"
    /\ SkipWord(output, SkipSpace(output, i + 2)) > SkipSpace(output, i + 2)

\* _extract_status with the last match in place of the first
_extract_status_last_match(output) ==
    LET at == { k \in 1..Len(output) : StatusAt(output, k) }
        i == IF at = {} THEN 0 ELSE CHOOSE k \in at : \A j \in at : j <= k
    IN  IF i # 0
        THEN SubSeq(output, SkipSpace(output, i + 2),
                    SkipWord(output, SkipSpace(output, i + 2)) - 1)
        ELSE <<"NOERROR">>

\* DigParser._extract_status
_extract_status(output) ==
    LET i == FirstOf({ k \in 1..Len(output) : StatusAt(output, k) }) IN
    IF i # 0
    THEN SubSeq(output, SkipSpace(output, i + 2),
                SkipWord(output, SkipSpace(output, i + 2)) - 1)
    ELSE <<"NOERROR">>

\* Query time:\s*(\d+)\s*msec matches at chunk i, the chunk that ends in "Query"
QueryTimeAt(output, i) ==
    LET d == SkipSpace(output, i + 4) IN
    /\ i + 3 <= Len(output)
    /\ SubSeq(output, i, i + 3) = <<"Query", " ", "time", ":">>
    /\ d <= Len(output) /\ output[d] \in DigitChunks
    /\ SkipSpace(output, d + 1) <= Len(output)
    /\ output[SkipSpace(output, d + 1)] = "msec"

\* DigParser._extract_query_time
_extract_query_time(output) ==
    LET i == FirstOf({ k \in 1..Len(output) : QueryTimeAt(output, k) }) IN
    IF i # 0
    THEN LET n == int(<<output[SkipSpace(output, i + 4)]>>)
         IN  IF n.exc = "" THEN Some(n.value) ELSE None
    ELSE None

\* the index after the run of chunks of s from i on that are neither '#' nor whitespace
RECURSIVE SkipServer(_, _)
SkipServer(s, i) ==
    IF i <= Len(s) /\ ~IsSpace(s[i]) /\ s[i] # "#" THEN SkipServer(s, i + 1) ELSE i

\* SERVER:\s*([^#\s]+) matches at chunk i, the chunk that ends in "SERVER"
ServerAt(output, i) ==
    /\ output[i] = "SERVER"
    /\ i + 1 <= Len(output) /\ output[i + 1] = ":"
    /\ SkipServer(output, SkipSpace(output, i + 2)) > SkipSpace(output, i + 2)

\* DigParser._extract_server
_extract_server(output) ==
    LET i == FirstOf({ k \in 1..Len(output) : ServerAt(output, k) }) IN
    IF i # 0
    THEN Some(Strip(SubSeq(output, SkipSpace(output, i + 2),
                           SkipServer(output, SkipSpace(output, i + 2)) - 1)))
    ELSE None

\* _parse_record_type without the call of upper()
_parse_record_type_as_given(record_type) ==
    IF RecordType(record_type).exc = "" THEN RecordType(record_type).value
    ELSE RecordTypeMember("A")

\* DigParser._parse_record_type
_parse_record_type(record_type) ==
    IF RecordType(UpperText(record_type)).exc = ""
    THEN RecordType(UpperText(record_type)).value
    ELSE RecordTypeMember("A")

\* SectionHeader with every line that ends in "SECTION:" taken for a header
SectionHeader_any_section(line) ==
    LET w == SkipSpace(line, 3)
        IsHeader(words) ==
            /\ Len(line) >= 2 /\ line[1] = ";" /\ line[2] = ";"
            /\ w + 3 <= Len(line)
            /\ line[w] \in words
            /\ line[w + 1] = " "
            /\ line[w + 2] \in {"SECTION", "PSEUDOSECTION"}
            /\ line[w + 3] = ":"
            /\ SkipSpace(line, w + 4) > Len(line)
    IN  IF IsHeader({"ANSWER"}) THEN Some("answer")
        ELSE IF IsHeader({"AUTHORITY"}) THEN Some("authority")
        ELSE IF IsHeader({"ADDITIONAL", "OPT"}) THEN Some("additional")
        ELSE None

\* the section whose header pattern matches the stripped line, None when none does
SectionHeader(line) ==
    LET w == SkipSpace(line, 3)
        IsHeader(word) ==
            /\ Len(line) >= 2 /\ line[1] = ";" /\ line[2] = ";"
            /\ w + 3 <= Len(line)
            /\ SubSeq(line, w, w + 3) = <<word, " ", "SECTION", ":">>
            /\ SkipSpace(line, w + 4) > Len(line)
    IN  IF IsHeader("ANSWER") THEN Some("answer")
        ELSE IF IsHeader("AUTHORITY") THEN Some("authority")
        ELSE IF IsHeader("ADDITIONAL") THEN Some("additional")
        ELSE None

\* line.startswith(";") and "SECTION:" not in line
IsSkippedComment(line) ==
    /\ line # <<>> /\ line[1] = ";"
    /\ ~\E i \in 1..(Len(line) - 1) :
            line[i] \in {"SECTION", "PSEUDOSECTION"} /\ line[i + 1] = ":"

----------------------------------------------------------------------------
(* DigParser.parse, a line of the output at a step *)

\* the lines of an output are at most this many
MaxLines == 3

\* "\n".join(lines)
RECURSIVE JoinLines(_)
JoinLines(ls) ==
    IF ls = <<>> THEN <<>>
    ELSE IF Len(ls) = 1 THEN ls[1]
    ELSE ls[1] \o <<"\n">> \o JoinLines(Tail(ls))

\* a line of five fields, separated as dig separates them
RecordLine(name, ttl, record_class, record_type, value) ==
    name \o <<"\t", "\t">> \o ttl \o <<"\t">> \o record_class \o <<"\t">>
         \o record_type \o <<" ">> \o value

BlankLine == <<" ">>
CommentLine == <<";", " ", "comment">>
AnswerHeader == <<";", ";", " ", "ANSWER", " ", "SECTION", ":">>
AuthorityHeader == <<" ", ";", ";", " ", "AUTHORITY", " ", "SECTION", ":", " ">>
AdditionalHeader == <<";", ";", "ADDITIONAL", " ", "SECTION", ":">>
OptHeader == <<";", ";", " ", "OPT", " ", "PSEUDOSECTION", ":">>
StatusLine == <<";", ";", " ", "status", ":", " ", "NXDOMAIN">>
QueryTimeLine == <<";", ";", " ", "Query", " ", "time", ":", " ", "8", " ", "msec">>
ServerLine ==
    <<";", ";", " ", "SERVER", ":", " ", "8.8.8.8", "#", "53", "(", "8.8.8.8", ")">>

DottedName == <<"example.com", ".">>
ARecordLine == RecordLine(DottedName, <<"300">>, <<"IN">>, <<"A">>, <<"1.2.3.4">>)
MXRecordLine ==
    RecordLine(DottedName, <<"300">>, <<"IN">>, <<"MX">>,
               <<"10", " ", "mail.example.com", ".">>)
\* a record whose value reads like metadata
TXTRecordLine ==
    RecordLine(DottedName, <<"0">>, <<"CH">>, <<"TXT">>, <<"status", ":", " ", "SERVFAIL">>)
BadTTLLine == RecordLine(DottedName, <<"abc">>, <<"IN">>, <<"A">>, <<"1.2.3.4">>)
BadClassLine == RecordLine(DottedName, <<"300">>, <<"XX">>, <<"A">>, <<"1.2.3.4">>)
BadTypeLine == RecordLine(DottedName, <<"300">>, <<"IN">>, <<"XYZ">>, <<"1.2.3.4">>)
BadMXLine ==
    RecordLine(DottedName, <<"300">>, <<"IN">>, <<"MX">>, <<"abc", " ", "mail.example.com">>)

SectionHeaders == { AnswerHeader, AuthorityHeader, AdditionalHeader }
WellFormedLines == { ARecordLine, MXRecordLine, TXTRecordLine }
MalformedLines == { BadTTLLine, BadClassLine, BadTypeLine, BadMXLine }
OutputLines ==
    { BlankLine, CommentLine, OptHeader, StatusLine, QueryTimeLine, ServerLine }
        \cup SectionHeaders \cup WellFormedLines \cup MalformedLines

\* every output of at most MaxLines lines
LinedOutputs == { JoinLines(ls) : ls \in SeqsUpTo(OutputLines, MaxLines) }

\* one record under the answer header, for every type, class, ttl, name and value
RecordNames == { <<"example.com">>, DottedName, <<"example.com", ".", ".">> }
TTLs == { 0, 300 }
RecordTTLs == { <<DigitsOf(n)>> : n \in TTLs }
RecordClasses == { "IN", "CH", "HS" }
RecordValues ==
    { <<"1.2.3.4">>, <<"ns.example.com", ".">>, <<"v", " ", " ", "spf1", " ", "abc", ".">> }
MXValues ==
    { <<"10", " ", "mail.example.com", ".">>, <<"0", "\t", "mail.example.com">>,
      <<"+", "10", " ", "mail.example.com">>, <<"-", "10", " ", "mail.example.com">>,
      <<"abc", " ", "mail.example.com">>, <<"10">>, <<"mail.example.com", ".">>,
      <<"10", " ", "mail.example.com", " ", "abc", ".">>,
      <<"10", ".", "0", " ", "mail.example.com">>, <<"-", "0", " ", "mail.example.com">> }
SingleRecordLines ==
    { RecordLine(n, t, <<c>>, <<ty>>, v) :
        n \in RecordNames, t \in RecordTTLs, c \in RecordClasses,
        ty \in RecordTypeValues \ {"MX"}, v \in RecordValues }
SingleMXLines ==
    { RecordLine(n, t, <<c>>, <<"MX">>, v) :
        n \in {DottedName}, t \in RecordTTLs, c \in RecordClasses, v \in MXValues }
SingleRecordOutputs ==
    { JoinLines(<<AnswerHeader, l>>) : l \in SingleRecordLines \cup SingleMXLines }

\* metadata whose parts lie on two lines, or twice in the output
MetadataOutputs ==
    { <<";", " ", "status", ":", "\n", "SERVFAIL", "\n">> \o StatusLine,
      <<";", " ", "status", ":", "\n", ";", " ", "comment">>,
      <<"Query", " ", "time", ":", "\n", "10", "\n", "msec", "\n">> \o QueryTimeLine,
      <<"Query", " ", "time", ":", " ", "abc", " ", "msec">>,
      <<"SERVER", ":", "\n", "1.2.3.4", "\n">> \o ServerLine,
      <<"SERVER", ":", "#", "53">>,
      RecordLine(DottedName, <<"300">>, <<"IN">>, <<"TXT">>,
                 <<"SERVER", ":", "ns.example.com", ".", "#", "53">>) }

\* lines that begin with ';' and hold "SECTION:" without being one of the three
\* headers: a header with text after it, a record that is commented out
TrailedHeader == AnswerHeader \o <<" ", "comment">>
CommentedRecordLine ==
    RecordLine(<<";", "example.com", ".">>, <<"300">>, <<"IN">>, <<"TXT">>,
               <<"SECTION", ":", " ", "8">>)
MarkedComments == { OptHeader, TrailedHeader, CommentedRecordLine }
MarkedCommentOutputs ==
    { JoinLines(<<c>>) : c \in MarkedComments }
        \cup { JoinLines(<<h, c>>) : h \in SectionHeaders, c \in MarkedComments }

\* the domain and the record type of a query
ParseDomains == { <<"example.com">>, DottedName, <<"example.com", ".", ".">> }
ParseTypes == { <<"A">>, <<"MX">>, <<"mx">>, <<"bogus">>, <<>> }

\* the calls of parse: every output with one query, the blank outputs and the
\* single lines with every query
ParseCalls ==
    { <<o, <<"example.com">>, <<"A">> >> :
        o \in LinedOutputs \cup SingleRecordOutputs \cup MetadataOutputs
                \cup MarkedCommentOutputs }
        \cup { <<JoinLines(ls), d, t>> :
                 ls \in SeqsUpTo(OutputLines, 1) \cup { <<BlankLine, BlankLine>> },
                 d \in ParseDomains, t \in ParseTypes }

ParserInit ==
    /\ parser = IdleParser
    /\ fn = NoCall
    /\ view = NoView
    /\ window = NoWindow
    /\ dig_available = None
    /\ call = <<>>
    /\ probes = 0
    /\ entries = <<>>
    /\ max_entries = 1
    /\ disk = [jtype |-> "missing"]
    /\ clock = Clock0
    /\ ticks = 0
    /\ ctor = ""
    /\ last = Done("__init__", <<>>, TRUE)
    /\ run = <<>>
    /\ added = None
    /\ fresh = None

\* the call p of parse ends with the response made, or with the exception
LeaveWith(p, made) ==
    [p EXCEPT !.pc = "done",
              !.response = IF made.exc = "" THEN Some(made.value) ELSE None,
              !.exc = made.exc]

Leave(made) == LeaveWith(parser, made)

\* the call p of parse from its entry up to its loop
ParseEntry(p, output, domain, record_type) ==
    LET args == [p EXCEPT !.output = output, !.domain = domain,
                          !.record_type = record_type]
    IN  IF output = <<>> \/ Strip(output) = <<>>
        THEN LeaveWith(args, DigResponse(domain, _parse_record_type(record_type), None,
                                         None, <<"NODATA">>, <<>>, <<>>, <<>>))
        ELSE [args EXCEPT !.pc = "scan",
                          !.lines = SplitLines(Strip(output)),
                          !.pos = 1,
                          !.status = _extract_status(output),
                          !.query_time_ms = _extract_query_time(output),
                          !.server = _extract_server(output)]

\* the call p of parse after one pass of the loop over the lines
ScanStep(p) ==
    LET line == Strip(p.lines[p.pos])
        next == [p EXCEPT !.pos = p.pos + 1]
        record == _parse_record_line(line)
    IN  IF line = <<>> THEN next
        ELSE IF IsSkippedComment(line) THEN next
        ELSE IF SectionHeader(line) # None
             THEN [next EXCEPT !.current_section = SectionHeader(line)]
        ELSE IF p.current_section = None THEN next
        ELSE IF record.exc # ""
             THEN [p EXCEPT !.pc = "done", !.exc = record.exc]
        ELSE IF record.value = None THEN next
        ELSE IF p.current_section = Some("answer")
             THEN [next EXCEPT !.answer_section = Append(@, record.value[1])]
        ELSE IF p.current_section = Some("authority")
             THEN [next EXCEPT !.authority_section = Append(@, record.value[1])]
        ELSE [next EXCEPT !.additional_section = Append(@, record.value[1])]

\* the call p of parse after the last line: the response is built
ParseExit(p) ==
    LeaveWith(p, DigResponse(p.domain, _parse_record_type(p.record_type),
                             p.server, p.query_time_ms, p.status,
                             p.answer_section, p.authority_section,
                             p.additional_section))

\* DigParser.parse from entry to return: [exc |-> "", value |-> the response],
\* or [exc |-> the exception raised]
RECURSIVE RunParse(_)
RunParse(p) ==
    IF p.pc = "done" THEN p
    ELSE IF p.pos <= Len(p.lines)
         THEN CHOOSE r \in { RunParse(next) : next \in {ScanStep(p)} } : TRUE
    ELSE ParseExit(p)

Returned(p) == IF p.exc = "" THEN [exc |-> "", value |-> p.response[1]] ELSE [exc |-> p.exc]

parse(output, domain, record_type) ==
    CHOOSE r \in { Returned(left) :
                     left \in { RunParse(p) :
                         p \in {ParseEntry(IdleParser, output, domain, record_type)} } } : TRUE

\* parse(output, domain, record_type) up to its loop
Parse ==
    /\ parser.pc = "idle"
    /\ fn = NoCall
    /\ \E c \in ParseCalls : parser' = ParseEntry(parser, c[1], c[2], c[3])
    /\ UNCHANGED <<hvars, evars, fn, uvars>>

\* one pass of the loop over the lines
ScanLine ==
    /\ parser.pc = "scan"
    /\ parser.pos <= Len(parser.lines)
    /\ parser' = ScanStep(parser)
    /\ UNCHANGED <<hvars, evars, fn, uvars>>

\* parse builds its response after the last line
ParseReturn ==
    /\ parser.pc = "scan"
    /\ parser.pos > Len(parser.lines)
    /\ parser' = ParseExit(parser)
    /\ UNCHANGED <<hvars, evars, fn, uvars>>

----------------------------------------------------------------------------
(* DigParser.validate_domain *)

\* a candidate domain has at most this many pieces
MaxDomainLen == 5

\* A candidate domain is a sequence of pieces: a piece is one character, or the
\* run of 250 letters that brings a domain to the limit of 253 characters.
LongRun == "a{250}"
Width(piece) == IF piece = LongRun THEN 250 ELSE 1

\* len(text)
RECURSIVE TextLen(_)
TextLen(text) == IF text = <<>> THEN 0 ELSE Width(Head(text)) + TextLen(Tail(text))

\* [a-zA-Z0-9.-]
DomainChars == { "a", "Z", "7", ".", "-", LongRun }
Pieces == DomainChars \cup { " ", "_" }
Candidates == SeqsUpTo(Pieces, MaxDomainLen)

\* validate_domain with the limit one character lower
validate_domain_limit_252(domain) ==
    LET d == Strip(domain) IN
    IF domain = <<>> \/ d = <<>> THEN FALSE
    ELSE IF TextLen(d) > 252 THEN FALSE
    ELSE IF \E i \in 1..Len(d) : d[i] \notin DomainChars THEN FALSE
    ELSE IF \E i \in 1..(Len(d) - 1) : d[i] = "." /\ d[i + 1] = "." THEN FALSE
    ELSE IF d[1] = "." \/ d[Len(d)] = "." \/ d[1] = "-" \/ d[Len(d)] = "-" THEN FALSE
    ELSE TRUE

\* DigParser.validate_domain
validate_domain(domain) ==
    LET d == Strip(domain) IN
    IF domain = <<>> \/ d = <<>> THEN FALSE
    ELSE IF TextLen(d) > 253 THEN FALSE
    ELSE IF \E i \in 1..Len(d) : d[i] \notin DomainChars THEN FALSE
    ELSE IF \E i \in 1..(Len(d) - 1) : d[i] = "." /\ d[i + 1] = "." THEN FALSE
    ELSE IF d[1] = "." \/ d[Len(d)] = "." \/ d[1] = "-" \/ d[Len(d)] = "-" THEN FALSE
    ELSE TRUE

\* the store, the executor and the parser are not in use
OthersIdle ==
    /\ parser = IdleParser
    /\ dig_available = None
    /\ call = <<>>
    /\ probes = 0
    /\ entries = <<>>
    /\ max_entries = 1
    /\ disk = [jtype |-> "missing"]
    /\ clock = Clock0
    /\ ticks = 0
    /\ ctor = ""
    /\ last = Done("__init__", <<>>, TRUE)
    /\ run = <<>>
    /\ added = None
    /\ fresh = None
    /\ view = NoView
    /\ window = NoWindow

\* a call of validate_domain with its argument
ValidateInit ==
    /\ OthersIdle
    /\ \E d \in Candidates : fn = [op |-> "validate_domain", arg |-> d, ret |-> None]

\* validate_domain(domain) returns
ValidateDomain ==
    /\ fn.op = "validate_domain"
    /\ fn.ret = None
    /\ fn' = [fn EXCEPT !.ret = Some(validate_domain(fn.arg))]
    /\ UNCHANGED <<hvars, evars, parser, uvars>>

----------------------------------------------------------------------------
(* DigExecutor: the command *)

\* the flags of the structured output, in their order
StructuredFlags ==
    << <<"+noall">>, <<"+answer">>, <<"+authority">>, <<"+additional">>, <<"+stats">>,
       <<"+comments">>, <<"+cmd">> >>

\* _build_command without the test of the nameserver after strip()
_build_command_any_nameserver(domain, record_type, nameserver, reverse_lookup, trace, short) ==
    <<  <<"dig">>  >>
        \o (IF nameserver # None /\ nameserver[1] # <<>>
            THEN << <<"@">> \o Strip(nameserver[1]) >> ELSE <<>>)
        \o (IF reverse_lookup THEN << <<"-x">>, domain >> ELSE <<domain, record_type>>)
        \o (IF trace THEN << <<"+trace">> >> ELSE <<>>)
        \o (IF short THEN << <<"+short">> >> ELSE StructuredFlags)

\* DigExecutor._build_command: the arguments, each a text
_build_command(domain, record_type, nameserver, reverse_lookup, trace, short) ==
    <<  <<"dig">>  >>
        \o (IF nameserver # None /\ nameserver[1] # <<>> /\ Strip(nameserver[1]) # <<>>
            THEN << <<"@">> \o Strip(nameserver[1]) >> ELSE <<>>)
        \o (IF reverse_lookup THEN << <<"-x">>, domain >> ELSE <<domain, record_type>>)
        \o (IF trace THEN << <<"+trace">> >> ELSE <<>>)
        \o (IF short THEN << <<"+short">> >> ELSE StructuredFlags)

\* the arguments of a query
\* domains, character by character as validate_domain reads them
CommandDomains ==
    { <<"a", ".", "a">>, <<" ", "a", ".", "a", " ">>, <<"7", ".", "7">>, <<" ">>,
      <<"-", "a">>, <<"a", "_", "a">> }
CommandTypes == { <<"A">>, <<"MX">>, <<"mx">>, <<" ", "MX", " ">>, <<" ", "mx">> }
Nameservers ==
    { None, Some(<<>>), Some(<<" ">>), Some(<<"8.8.8.8">>), Some(<<" ", "8.8.8.8", " ">>) }
CommandPaths == { "execute_dig", "execute_dig_sync", "_build_command" }
Queries ==
    [domain : CommandDomains, record_type : CommandTypes, nameserver : Nameservers,
     reverse_lookup : BOOLEAN, trace : BOOLEAN, short : BOOLEAN]

\* a call that builds a command, with its arguments; dig is available
CommandInit ==
    /\ OthersIdle
    /\ \E path \in CommandPaths, q \in Queries : fn = [op |-> path, arg |-> q, ret |-> None]

\* a direct call of _build_command
BuildCommand ==
    /\ fn.op = "_build_command"
    /\ fn.ret = None
    /\ fn' = [fn EXCEPT !.ret =
                Some(_build_command(fn.arg.domain, fn.arg.record_type, fn.arg.nameserver,
                                    fn.arg.reverse_lookup, fn.arg.trace, fn.arg.short))]
    /\ UNCHANGED <<hvars, evars, parser, uvars>>

\* execute_dig, with a callback, up to the command that its worker hands to
\* subprocess.run; for a blank domain there is no worker and no command: <<>>
ExecuteDigCommand ==
    /\ fn.op = "execute_dig"
    /\ fn.ret = None
    /\ LET domain == Strip(fn.arg.domain)
           record_type == UpperText(Strip(fn.arg.record_type))
       IN  IF fn.arg.domain = <<>> \/ domain = <<>>
           THEN fn' = [fn EXCEPT !.ret = Some(<<>>)]
           ELSE fn' = [fn EXCEPT !.ret =
                         Some(_build_command(domain, record_type, fn.arg.nameserver,
                                             fn.arg.reverse_lookup, fn.arg.trace,
                                             fn.arg.short))]
    /\ UNCHANGED <<hvars, evars, parser, uvars>>

\* execute_dig_sync up to the command that it hands to subprocess.run
ExecuteDigSyncCommand ==
    /\ fn.op = "execute_dig_sync"
    /\ fn.ret = None
    /\ fn' = [fn EXCEPT !.ret =
                Some(_build_command(fn.arg.domain, fn.arg.record_type, fn.arg.nameserver,
                                    fn.arg.reverse_lookup, fn.arg.trace, fn.arg.short))]
    /\ UNCHANGED <<hvars, evars, parser, uvars>>

CNext == BuildCommand \/ ExecuteDigCommand \/ ExecuteDigSyncCommand

----------------------------------------------------------------------------
(* The data models, constructed directly *)

\* MXRecord(record_type=, ...): the type is Literal[RecordType.MX]
MXRecordOfType(record_type, name, ttl, record_class, priority, mail_server, value) ==
    IF record_type # RecordTypeMember("MX") THEN [exc |-> "ValidationError"]
    ELSE MXRecord(name, ttl, record_class, priority, mail_server, value)

ModelTTLs == { -1, 0, 300 }
ModelPriorities == { -1, 0, 10 }
ModelQueryTimes == { None, Some(-1), Some(0), Some(8) }
ModelTypes == { RecordTypeMember("A"), RecordTypeMember("MX") }

\* DNSRecord(...) is called
ConstructDNSRecord ==
    /\ parser.pc = "idle"
    /\ fn = NoCall
    /\ \E ttl \in ModelTTLs, record_type \in ModelTypes :
          fn' = [op |-> "DNSRecord",
                 arg |-> [ttl |-> ttl, record_type |-> record_type],
                 ret |-> Some(DNSRecord(DottedName, ttl, "IN", record_type, <<"1.2.3.4">>))]
    /\ UNCHANGED <<hvars, evars, parser, uvars>>

\* MXRecord(...) is called
ConstructMXRecord ==
    /\ parser.pc = "idle"
    /\ fn = NoCall
    /\ \E ttl \in ModelTTLs, priority \in ModelPriorities, record_type \in ModelTypes :
          fn' = [op |-> "MXRecord",
                 arg |-> [ttl |-> ttl, priority |-> priority, record_type |-> record_type],
                 ret |-> Some(MXRecordOfType(record_type, DottedName, ttl, "IN", priority,
                                             <<"mail.example.com", ".">>,
                                             <<"10", " ", "mail.example.com", ".">>))]
    /\ UNCHANGED <<hvars, evars, parser, uvars>>

\* DigResponse(...) is called
ConstructDigResponse ==
    /\ parser.pc = "idle"
    /\ fn = NoCall
    /\ \E query_time_ms \in ModelQueryTimes :
          fn' = [op |-> "DigResponse",
                 arg |-> [query_time_ms |-> query_time_ms],
                 ret |-> Some(DigResponse(DottedName, RecordTypeMember("A"),
                                          Some(<<" ", "8.8.8.8">>), query_time_ms,
                                          <<"NOERROR">>, <<>>, <<>>, <<>>))]
    /\ UNCHANGED <<hvars, evars, parser, uvars>>

----------------------------------------------------------------------------
(* HistoryWidget: the history view *)

\* the characters of the domains of the model
CharsOf(domain) ==
    CASE domain = "a.com" -> <<"a", ".", "c", "o", "m">>
      [] domain = "A.com" -> <<"A", ".", "c", "o", "m">>
      [] domain = "b.org" -> <<"b", ".", "o", "r", "g">>
      [] domain = "B.org" -> <<"B", ".", "o", "r", "g">>
      [] domain = "a.a" -> <<"a", ".", "a">>
      [] domain = "7.7" -> <<"7", ".", "7">>
      [] domain = "a..a" -> <<"a", ".", ".", "a">>

\* str.lower() on a text of characters
LowerChars(s) ==
    [i \in 1..Len(s) |-> CASE s[i] = "A" -> "a" [] s[i] = "B" -> "b" [] OTHER -> s[i]]

\* QueryHistory.search_history
search_history(st, query) ==
    LET query_lower == LowerChars(query)
        RECURSIVE Matching(_)
        Matching(es) ==
            IF es = <<>> THEN <<>>
            ELSE IF Contains(CharsOf(Lower(Head(es).domain)), query_lower)
                 THEN <<Head(es)>> \o Matching(Tail(es))
                 ELSE Matching(Tail(es))
    IN  Matching(st.entries)

\* HistoryWidget._load_history(filter_query): the rows of the list, each with
\* the entry it displays and the index its delete button is connected with
HistoryWidget_load_history(st, filter_query) ==
    LET shown == IF filter_query # None /\ filter_query[1] # <<>>
                 THEN search_history(st, filter_query[1])
                 ELSE get_entries(st, None).list
    IN  [i \in 1..Len(shown) |-> [entry |-> shown[i], index |-> i - 1]]

\* search_entry.get_text().strip(), None when it is empty
CurrentSearch(text) == IF Strip(text) # <<>> THEN Some(Strip(text)) ELSE None

\* what the user types in the search entry
SearchTexts == { <<>>, <<" ">>, <<"a">>, <<" ", "B">>, <<"o">> }

\* the history files of the window
ViewDomains == {"a.com", "b.org"}
ViewDicts ==
    { [jtype |-> "object", domain |-> d, record_type |-> "A", nameserver |-> None,
       timestamp |-> <<"iso", t>>, status |-> "NOERROR", query_time_ms |-> Some(45)] :
         d \in ViewDomains, t \in FileTimes }
ViewFiles == { [jtype |-> "object", entries |-> es] : es \in SeqsUpTo(ViewDicts, MaxFileLen) }

\* QueryHistory() of the main window
DefaultMaxEntries == 100

\* HistoryWidget(parent, history) on the store of the main window
ViewInit ==
    /\ clock = Clock0
    /\ ticks = 0
    /\ \E file \in ViewFiles :
          /\ entries = QueryHistory(file, DefaultMaxEntries).st.entries
          /\ max_entries = DefaultMaxEntries
          /\ disk = QueryHistory(file, DefaultMaxEntries).st.file
          /\ ctor = QueryHistory(file, DefaultMaxEntries).exc
    /\ last = Done("__init__", <<>>, TRUE)
    /\ run = <<>>
    /\ added = None
    /\ fresh = FreshOf(entries)
    /\ dig_available = None
    /\ call = <<>>
    /\ probes = 0
    /\ parser = IdleParser
    /\ fn = NoCall
    /\ view = [NoView EXCEPT !.open = TRUE,
                             !.rows = HistoryWidget_load_history(Store, None)]
    /\ window = NoWindow

\* _on_search_changed: the list is built again for the text of the search entry
SearchChanged ==
    /\ view.open
    /\ \E text \in SearchTexts :
          view' = [view EXCEPT !.search = text,
                               !.rows = HistoryWidget_load_history(Store, CurrentSearch(text))]
    /\ UNCHANGED <<hvars, evars, pvars, window>>

\* a query of the main window completes while the history view is open:
\* _update_results adds its entry to the store, the view is not told
QueryCompleted ==
    /\ view.open
    /\ view.completed < MaxQueries
    /\ ctor = ""
    /\ \E d \in ViewDomains :
          LET e == HistoryEntry(d, RecordTypeMember("A"), None, clock, "NOERROR", Some(45))
          IN  /\ SetStore(add_entry(Store, clock, d, RecordTypeMember("A"), None,
                                    "NOERROR", Some(45)))
              /\ last' = Done("add_entry",
                              <<d, RecordTypeMember("A"), None, "NOERROR", Some(45)>>, TRUE)
              /\ run' = ExtendRun(run, e)
              /\ added' = Some(e)
              /\ fresh' = IF fresh # None /\ Len(fresh[1]) < 2
                          THEN Some(Append(fresh[1], e)) ELSE None
    /\ view' = [view EXCEPT !.completed = @ + 1]
    /\ UNCHANGED <<clock, ticks, ctor>>
    /\ UNCHANGED <<evars, pvars, window>>

\* _on_delete_entry: the delete button of a row opens the confirmation dialog
DeleteEntry ==
    /\ view.open
    /\ view.dialogs = <<>>
    /\ \E r \in 1..Len(view.rows) :
          view' = [view EXCEPT !.dialogs = Append(@, view.rows[r])]
    /\ UNCHANGED <<hvars, evars, pvars, window>>

\* _on_delete_confirm: the response to the confirmation dialog
DeleteConfirm ==
    /\ view.dialogs # <<>>
    /\ \E response \in {"cancel", "remove"} :
          LET index == Head(view.dialogs).index
              r == remove_entry(Store, index)
              closed == [view EXCEPT !.dialogs = Tail(@), !.response = response]
          IN  IF response = "remove"
              THEN /\ SetStore(r.st)
                   /\ last' = Done("remove_entry", <<index>>, r.ret)
                   /\ run' = <<>>
                   /\ fresh' = FreshOf(r.st.entries)
                   /\ view' = IF r.ret
                              THEN [closed EXCEPT !.rows =
                                      HistoryWidget_load_history(r.st,
                                                                 CurrentSearch(view.search))]
                              ELSE closed
                   /\ UNCHANGED <<clock, ticks, ctor, added>>
              ELSE /\ view' = closed
                   /\ UNCHANGED hvars
    /\ UNCHANGED <<evars, pvars, window>>

----------------------------------------------------------------------------
(* MainWindow: the event loop, the queries and their completions *)

\* The window is the record [current_query, loading, issued, loop, workers, log]:
\* _current_query; whether the query widget is in its loading state; how many
\* times _execute_query has run; the callbacks that GLib.idle_add has scheduled,
\* in order; the worker threads that execute_dig has started, each with the
\* number and the arguments of its query; and what has been done so far, by
\* which thread and for which query.

Effect(what, thread, of, by) == [what |-> what, thread |-> thread, of |-> of, by |-> by]
Logged(w, e) == [w EXCEPT !.log = Append(@, e)]

Scheduled(f, result, of) ==
    [fn |-> f, output |-> result.output, error |-> result.error, of |-> of]

\* a query as the window holds it: domain, record type, nameserver
Query(domain, record_type, nameserver) ==
    [domain |-> domain, record_type |-> record_type, nameserver |-> nameserver]

\* the str of a text of one word
Word(text) == text[1]

\* DigExecutor.check_dig_available on the cached flag `cache`, where o is the
\* outcome of the probe process if it is run: the value returned (None when
\* the exception of the probe leaves the method), the flag, and whether the
\* probe process was run
check_dig_available(cache, o) ==
    IF cache # None THEN [ret |-> cache, cache |-> cache, probed |-> FALSE]
    ELSE CASE o = "ran" -> [ret |-> Some(TRUE), cache |-> Some(TRUE), probed |-> TRUE]
           [] o \in {"FileNotFoundError", "TimeoutExpired"} ->
                 [ret |-> Some(FALSE), cache |-> Some(FALSE), probed |-> TRUE]
           [] OTHER -> [ret |-> None, cache |-> None, probed |-> TRUE]

\* the window after check_dig_available has been called by `thread` for query `of`
Probed(w, chk, thread, of) ==
    IF chk.probed THEN Logged(w, Effect("probe", thread, of, None)) ELSE w

\* the history store after RecordType(record_type) and add_entry of the window,
\* left alone when RecordType raises ValueError
HistoryAdded(st, now, q, status, query_time_ms) ==
    LET record_type_enum == RecordType(q.record_type) IN
    IF record_type_enum.exc # "" THEN st
    ELSE add_entry(st, now, q.domain, record_type_enum.value, q.nameserver,
                   status, query_time_ms)

AddLogged(w, q, thread, of) ==
    IF RecordType(q.record_type).exc # "" THEN w
    ELSE Logged(w, Effect("add_entry", thread, of, Some(q)))

\* MainWindow._update_results(output, error) for the scheduled callback cb, run
\* by `thread`: the window and the history store
_update_results(w, st, now, cb, thread) ==
    LET shown == Logged([w EXCEPT !.loading = FALSE], Effect("show", thread, cb.of, None))
        q == w.current_query[1]
        parsed == Logged(shown, Effect("parse", thread, cb.of, w.current_query))
        Shown(response) ==
            IF response.exc # "" THEN [window |-> parsed, st |-> st]
            ELSE [window |-> AddLogged(parsed, q, thread, cb.of),
                  st |-> HistoryAdded(st, now, q, Word(response.value.status),
                                      response.value.query_time_ms)]
    IN  IF cb.error # None
        THEN IF w.current_query # None
             THEN [window |-> AddLogged(shown, q, thread, cb.of),
                   st |-> HistoryAdded(st, now, q, "FAILED", None)]
             ELSE [window |-> shown, st |-> st]
        ELSE IF w.current_query = None THEN [window |-> shown, st |-> st]
        ELSE CHOOSE x \in { Shown(response) :
                              response \in {parse(cb.output, CharsOf(q.domain),
                                                  q.record_type)} } : TRUE

\* _on_dig_complete that updates the results on the thread that calls it
_on_dig_complete_on_caller_thread(w, st, now, result, thread, of) ==
    _update_results(w, st, now, Scheduled("_update_results", result, of), thread)

\* MainWindow._on_dig_complete(output, error), called by `thread` for query `of`
_on_dig_complete(w, st, now, result, thread, of) ==
    [window |-> Logged([w EXCEPT !.loop = Append(@, Scheduled("_update_results", result, of))],
                       Effect("idle_add", thread, of, None)),
     st |-> st]

\* MainWindow._execute_query(domain, record_type, nameserver) on the event
\* loop, with execute_dig up to its return: the window, the store and the flag
_execute_query(w, st, now, cache, q, o) ==
    LET n == w.issued + 1
        counted == [w EXCEPT !.issued = n]
        chk == check_dig_available(cache, o)
        checked == Probed(counted, chk, "main", n)
        refused == _on_dig_complete([checked EXCEPT !.loading = TRUE], st, now,
                       Result(<<>>, Some(Error("ValueError",
                                               <<"Domain name cannot be empty">>))),
                       "main", n)
    IN  IF ~validate_domain(CharsOf(q.domain))
        THEN [window |-> counted, st |-> st, cache |-> cache, probed |-> FALSE]
        ELSE IF chk.ret = None \/ ~chk.ret[1]
        THEN [window |-> checked, st |-> st, cache |-> chk.cache, probed |-> chk.probed]
        ELSE IF IsBlankDomain(CharsOf(q.domain))
        THEN [window |-> refused.window, st |-> refused.st, cache |-> chk.cache,
              probed |-> chk.probed]
        ELSE [window |-> [checked EXCEPT !.loading = TRUE,
                                         !.workers = Append(@, [of |-> n, query |-> q,
                                                                pc |-> "started"])],
              st |-> st, cache |-> chk.cache, probed |-> chk.probed]

\* what the query widget submits: a domain that passes its format check, a
\* record type of its list, the text of its server entry
WindowDomains == {"a.a", "a..a"}
WindowTypes == { <<"A">>, <<"MX">> }
WindowServers == {"", "8.8.8.8"}

\* the history files of the window: none, or one query made earlier
WindowFiles ==
    { [jtype |-> "missing"],
      [jtype |-> "object",
       entries |-> <<[jtype |-> "object", domain |-> "7.7", record_type |-> "MX",
                      nameserver |-> None, timestamp |-> <<"iso", 0>>,
                      status |-> "NOERROR", query_time_ms |-> Some(45)]>>] }

\* the outcomes of the query process of the window
WindowProcOutcomes ==
    { Exit(0, JoinLines(<<StatusLine, QueryTimeLine>>), <<>>),
      Exit(9, <<>>, <<"dig: couldn't get address", "\n">>),
      [kind |-> "timeout", returncode |-> 0, stdout |-> <<>>, stderr |-> <<>>] }

\* MainWindow.__init__
WindowInit ==
    /\ clock = Clock0
    /\ ticks = 0
    /\ \E file \in WindowFiles :
          /\ entries = QueryHistory(file, DefaultMaxEntries).st.entries
          /\ max_entries = DefaultMaxEntries
          /\ disk = QueryHistory(file, DefaultMaxEntries).st.file
          /\ ctor = QueryHistory(file, DefaultMaxEntries).exc
    /\ last = Done("__init__", <<>>, TRUE)
    /\ run = <<>>
    /\ added = None
    /\ fresh = FreshOf(entries)
    /\ dig_available = None
    /\ call = <<>>
    /\ probes = 0
    /\ parser = IdleParser
    /\ fn = NoCall
    /\ view = NoView
    /\ window = [NoWindow EXCEPT !.loop =
                    <<Scheduled("_check_dig_availability", Result(<<>>, None), 0)>>]

\* the window, the store and the flag after a handler that ends in _execute_query
Executed(x) ==
    /\ window' = x.window
    /\ SetStore(x.st)
    /\ dig_available' = x.cache
    /\ probes' = IF x.probed THEN probes + 1 ELSE probes
    /\ UNCHANGED <<clock, ticks, ctor, last, run, added, fresh>>
    /\ UNCHANGED <<call, pvars, view>>

\* the event loop runs _check_dig_availability
CheckDigAvailability ==
    /\ window.loop # <<>>
    /\ Head(window.loop).fn = "_check_dig_availability"
    /\ \E o \in ProbeOutcomes :
          LET chk == check_dig_available(dig_available, o) IN
          /\ window' = Probed([window EXCEPT !.loop = Tail(@)], chk, "main", 0)
          /\ dig_available' = chk.cache
          /\ probes' = IF chk.probed THEN probes + 1 ELSE probes
    /\ UNCHANGED <<hvars, call, pvars, view>>

\* _on_query_submitted: the query widget, which is not in its loading state,
\* submits a query
QuerySubmitted ==
    /\ window.issued < MaxQueries
    /\ ~window.loading
    /\ \E domain \in WindowDomains, record_type \in WindowTypes,
          nameserver \in WindowServers, o \in ProbeOutcomes :
          LET q == Query(domain, record_type,
                         IF nameserver # "" THEN Some(nameserver) ELSE None)
          IN  Executed(_execute_query([window EXCEPT !.current_query = Some(q)],
                                      Store, clock, dig_available, q, o))

\* _on_history_query_selected: an entry of the history is chosen to be repeated
HistoryQuerySelected ==
    /\ window.issued < MaxQueries
    /\ \E i \in 1..Len(entries), o \in ProbeOutcomes :
          LET nameserver == IF entries[i].nameserver # None
                            THEN entries[i].nameserver[1] ELSE ""
              q == Query(entries[i].domain, <<entries[i].record_type[2]>>,
                         IF nameserver # "" THEN Some(nameserver) ELSE None)
          IN  Executed(_execute_query([window EXCEPT !.current_query = Some(q)],
                                      Store, clock, dig_available, q, o))

\* _on_repeat_query_action
RepeatQueryAction ==
    /\ window.issued < MaxQueries
    /\ window.current_query # None
    /\ \E o \in ProbeOutcomes :
          Executed(_execute_query(window, Store, clock, dig_available,
                                  window.current_query[1], o))

\* the window and the store after a step of a worker thread
Worked(i, pc, x) ==
    /\ window' = [x.window EXCEPT !.workers[i].pc = pc]
    /\ SetStore(x.st)
    /\ UNCHANGED <<clock, ticks, ctor, last, run, added, fresh>>
    /\ UNCHANGED <<call, pvars, view>>

\* _execute_in_thread up to subprocess.run of the query
WorkerSpawn(i) ==
    /\ window.workers[i].pc = "started"
    /\ \E o \in ProbeOutcomes :
          LET of == window.workers[i].of
              chk == check_dig_available(dig_available, o)
              checked == Probed(window, chk, "worker", of)
              failed(error) == _on_dig_complete(checked, Store, clock,
                                                Result(<<>>, Some(error)), "worker", of)
          IN  /\ dig_available' = chk.cache
              /\ probes' = IF chk.probed THEN probes + 1 ELSE probes
              /\ IF chk.ret = None THEN Worked(i, "done", failed(ProbeError))
                 ELSE IF ~chk.ret[1]
                 THEN Worked(i, "done",
                             failed(Error("RuntimeError", <<"dig command is not available">>)))
                 ELSE Worked(i, "running",
                             [window |-> Logged(checked, Effect("query", "worker", of,
                                                         Some(window.workers[i].query))),
                              st |-> Store])

\* subprocess.run of the query returns or raises: the rest of _execute_in_thread
WorkerDone(i) ==
    /\ window.workers[i].pc = "running"
    /\ \E p \in WindowProcOutcomes :
          Worked(i, "done",
                 _on_dig_complete(window, Store, clock, WorkerDelivery(p).result, "worker",
                                  window.workers[i].of))
    /\ UNCHANGED <<dig_available, probes>>

\* the event loop runs _update_results(output, error)
UpdateResults ==
    /\ window.loop # <<>>
    /\ Head(window.loop).fn = "_update_results"
    /\ \E x \in { _update_results([window EXCEPT !.loop = Tail(@)], Store, clock,
                                   Head(window.loop), "main") } :
          /\ window' = x.window
          /\ SetStore(x.st)
          /\ last' = IF x.st = Store THEN last ELSE Done("add_entry", <<>>, TRUE)
    /\ UNCHANGED <<clock, ticks, ctor, run, added, fresh>>
    /\ UNCHANGED <<evars, pvars, view>>

----------------------------------------------------------------------------
(* Specifications *)

HNext ==
    \/ Tick
    \/ AddEntry
    \/ RemoveEntry
    \/ ClearHistory
    \/ CleanupOldEntries
    \/ EnforceLimit
    \/ SetMaxEntries

\* QueryHistory.__init__ where there is no history file
EmptyInit == HistoryInit /\ disk = [jtype |-> "missing"]

\* the history store from its empty state
SpecFromEmpty == EmptyInit /\ [][HNext]_vars

\* the history store alone
SpecHistory == HistoryInit /\ [][HNext]_vars

ENext ==
    \E c \in Calls :
        \/ ExecuteDig(c)
        \/ ExecuteDigSync(c)
        \/ CheckDigAvailable(c)
        \/ ProbeDone(c)
        \/ Unavailable(c)
        \/ SpawnProcess(c)
        \/ ProcessDone(c)

QNext ==
    \/ AddEntry
    \/ GetEntries
    \/ GetRecentDomains

\* the store under additions and the calls that read it
SpecQueries == HistoryInit /\ [][QNext]_vars

\* get_stats on the histories of StatsInit
SpecStats == StatsInit /\ [][GetStats]_vars

PNext ==
    \/ Parse \/ ScanLine \/ ParseReturn
    \/ ConstructDNSRecord \/ ConstructMXRecord \/ ConstructDigResponse

\* the parser and the data models, a call at a time
SpecParser == ParserInit /\ [][PNext]_vars

\* validate_domain on the candidates
SpecValidate == ValidateInit /\ [][ValidateDomain]_vars

\* the calls that build a command
SpecCommand == CommandInit /\ [][CNext]_vars

VNext == SearchChanged \/ DeleteEntry \/ DeleteConfirm \/ QueryCompleted

\* the history view over the store, while completed queries are added to it
SpecView == ViewInit /\ [][VNext]_vars

WNext ==
    \/ CheckDigAvailability
    \/ QuerySubmitted
    \/ HistoryQuerySelected
    \/ RepeatQueryAction
    \/ \E i \in 1..MaxQueries :
          i <= Len(window.workers) /\ (WorkerSpawn(i) \/ WorkerDone(i))
    \/ UpdateResults

\* the main window: the event loop, the user and the worker threads
SpecWindow == WindowInit /\ [][WNext]_vars

\* the executor alone
SpecExecutor == ExecutorInit /\ [][ENext]_vars

\* a step of the worker thread of call c, or of execute_dig_sync
WorkerStep(c) ==
    \/ CheckDigAvailable(c)
    \/ ProbeDone(c)
    \/ Unavailable(c)
    \/ SpawnProcess(c)
    \/ ProcessDone(c)

\* the executor with threads that are scheduled: a started worker keeps running,
\* the probe ends within its 5 seconds and the query process within its 30
SpecExecutorFair ==
    ExecutorInit /\ [][ENext]_vars /\ \A c \in Calls : WF_vars(WorkerStep(c))

----------------------------------------------------------------------------
(* Claims about the executor *)

Async(c) == call[c].mode = "async"
Sync(c) == call[c].mode = "sync"
Finished(c) == call[c].pc \in {"returned", "done"}
\* the process of call c has ended with an exit code
Exited(c) == call[c].proc # None /\ call[c].proc[1].kind = "exit"
NonBlank(text) == \E i \in 1..Len(text) : text[i] \notin Whitespace

\* C1: every call of execute_dig with a callback invokes the callback exactly
\* once, whatever the outcome and whatever the callback does; N calls give N
\* callbacks and N process runs.
C1_CallbackExactlyOnce ==
    \A c \in Calls :
        (Async(c) /\ call[c].has_callback) =>
            /\ Len(call[c].invs) <= 1
            /\ Finished(c) => Len(call[c].invs) = 1
            /\ call[c].proc # None => call[c].spawned = 1

\* C7: execute_dig validates before it dispatches.  Without a callback it
\* raises ValueError, whatever the domain, invokes nothing and starts no
\* worker; with a callback and a domain made of whitespace only it invokes
\* the callback once on the caller's thread with ("", ValueError) before it
\* returns, starts no worker and spawns no process.
C7_ValidationIsSynchronous ==
    /\ \A c \in Calls :
          (Async(c) /\ ~call[c].has_callback) =>
              /\ call[c].pc = "returned"
              /\ call[c].exc # None /\ call[c].exc[1].type = "ValueError"
              /\ call[c].invs = <<>>
              /\ ~call[c].thread_started /\ call[c].spawned = 0
    /\ \A c \in Calls :
          (Async(c) /\ call[c].has_callback /\ ~NonBlank(call[c].domain)) =>
              /\ call[c].pc = "returned"
              /\ Len(call[c].invs) = 1
              /\ call[c].invs[1].thread = "caller"
              /\ call[c].invs[1].output = <<>>
              /\ call[c].invs[1].error # None
              /\ call[c].invs[1].error[1].type = "ValueError"
              /\ ~call[c].thread_started /\ call[c].spawned = 0
    /\ (\A c \in Calls : call[c].pc \in {"idle", "returned"}) => probes = 0

C7_Witness ==
    /\ \E c \in Calls : Async(c) /\ call[c].has_callback /\ call[c].domain = <<" ">>
                        /\ call[c].pc = "returned"
    /\ \E c \in Calls : Async(c) /\ ~call[c].has_callback /\ call[c].domain = <<>>
                        /\ call[c].pc = "returned"

\* what the worker first passed to the callback of call c
First(c) == call[c].invs[1]
DeliveredSuccess(c) ==
    First(c).output = call[c].proc[1].stdout /\ First(c).error = None

\* C8 as stated: the worker delivers (stdout, None) if and only if the exit
\* code is zero, or it is non-zero and stdout is non-empty.
C8_SuccessIffNonEmptyStdout ==
    \A c \in Calls :
        (Async(c) /\ Exited(c)) =>
            (DeliveredSuccess(c) <=>
                \/ call[c].proc[1].returncode = 0
                \/ call[c].proc[1].stdout # <<>>)

\* C8 amended: the worker delivers (stdout, None), stdout unmodified, if and
\* only if the exit code is zero, or it is non-zero and stdout holds a
\* character that is not whitespace; stderr plays no part.
C8_SuccessIffNonBlankStdout ==
    \A c \in Calls :
        (Async(c) /\ Exited(c)) =>
            (DeliveredSuccess(c) <=>
                \/ call[c].proc[1].returncode = 0
                \/ NonBlank(call[c].proc[1].stdout))

C8_Witness ==
    \E c \in Calls :
        /\ Async(c) /\ Exited(c)
        /\ call[c].proc[1].returncode = 1
        /\ call[c].proc[1].stdout = <<"\n">>
        /\ First(c).error # None

MentionsNetworkFailure(text) ==
    \/ Contains(LowerText(text), NetworkUnreachable)
    \/ Contains(LowerText(text), ConnectionTimedOut)

\* C9: when the process exits non-zero with empty stdout the worker delivers
\* ("", error) whose message is "dig command failed: " followed by the
\* stripped stderr, or by the generic text when stderr is empty; when that
\* text holds "network unreachable" or "connection timed out" in any letter
\* case the message is the network-connection-failed one and holds no stderr.
C9_FailurePolicy ==
    \A c \in Calls :
        (Async(c) /\ Exited(c) /\ call[c].proc[1].returncode # 0
                  /\ call[c].proc[1].stdout = <<>>) =>
            LET err == call[c].proc[1].stderr
                text == IF err = <<>> THEN <<"dig command failed">> ELSE Strip(err)
            IN  /\ First(c).output = <<>>
                /\ First(c).error # None
                /\ First(c).error[1].type = "RuntimeError"
                /\ IF MentionsNetworkFailure(text)
                   THEN /\ First(c).error[1].msg =
                             <<"Network connection failed. Please check your internet connection.">>
                        /\ ~Contains(First(c).error[1].msg, text)
                   ELSE First(c).error[1].msg = <<"dig command failed: ">> \o text

C9_Witness ==
    \E c \in Calls :
        /\ Async(c) /\ Exited(c) /\ call[c].proc[1].returncode # 0
        /\ call[c].proc[1].stdout = <<>>
        /\ Contains(call[c].proc[1].stderr, <<"Network", " ", "Unreachable">>)
        /\ First(c).error[1].msg =
              <<"Network connection failed. Please check your internet connection.">>

\* the (output, error) of a call that has completed: what the worker first
\* passed to the callback, or what execute_dig_sync returned
Outcome(c) == IF Sync(c) THEN call[c].ret[1] ELSE Result(First(c).output, First(c).error)

NotAvailable == Error("RuntimeError", <<"dig command is not available">>)

\* C11: when check_dig_available has returned false to a call, the worker of
\* execute_dig and execute_dig_sync alike complete with ("", RuntimeError
\* "dig command is not available") and no query process is spawned for the
\* call; a process is spawned only after the check has returned true.
C11_UnavailableNeverSpawns ==
    \A c \in Calls :
        /\ call[c].available = Some(FALSE) =>
               /\ call[c].spawned = 0 /\ call[c].proc = None
               /\ call[c].pc \in {"unavailable", "done"}
               /\ call[c].pc = "done" => Outcome(c) = Result(<<>>, Some(NotAvailable))
        /\ call[c].spawned > 0 => call[c].available = Some(TRUE)

C11_Witness ==
    /\ \E c \in Calls : Async(c) /\ call[c].pc = "done" /\ call[c].available = Some(FALSE)
    /\ \E c \in Calls : Sync(c) /\ call[c].pc = "done" /\ call[c].available = Some(FALSE)

\* check_dig_available returns to call d in this step
ReturnsFlag(d) == call[d].available = None /\ call'[d].available # None

\* C12: the availability flag is computed once per executor: the probe
\* process is run at most once, and once check_dig_available has returned a
\* value every later return of it gives the same value.
C12_FlagComputedOnce ==
    [][/\ probes' <= 1
       /\ \A c \in Calls, d \in Calls :
              (call[c].available # None /\ ReturnsFlag(d)) =>
                  call'[d].available = call[c].available]_vars

Dispatched(c) == Async(c) /\ call[c].thread_started
Delivered(c) == call[c].pc = "done" /\ call[c].invs # <<>>

\* C13: every dispatched query eventually delivers its callback, by process
\* completion or by the timeout; nothing cancels it: no step, of this call or
\* of a later one, takes back a dispatch or a delivery.
C13_EventuallyDelivered ==
    /\ \A c \in Calls : Dispatched(c) ~> Delivered(c)
    /\ [][\A c \in Calls :
             /\ Dispatched(c) => Dispatched(c)'
             /\ Delivered(c) => Delivered(c)']_vars

C13_Witness ==
    \E c \in Calls, d \in Calls :
        /\ c < d
        /\ Dispatched(c) /\ call[c].pc = "running"
        /\ Dispatched(d) /\ Delivered(d) /\ call[d].proc # None

\* C14: for the same domain, availability flag and process outcome,
\* execute_dig_sync returns the (output, error) that execute_dig passes to
\* its callback, blank domains and network-failure messages included.
C14_SyncSameAsAsync ==
    \A c \in Calls, d \in Calls :
        (/\ Async(c) /\ call[c].has_callback /\ Finished(c)
         /\ Sync(d) /\ call[d].pc = "done"
         /\ call[c].domain = call[d].domain
         /\ call[c].pc = "done" =>
                (call[c].available = call[d].available /\ call[c].proc = call[d].proc))
            => Outcome(c) = Outcome(d)

----------------------------------------------------------------------------
(* Claims about the history store *)

\* the step is a completed call of the operation op
StepOf(op) == clock' = clock /\ last'.op = op

KeyOf(e) == <<Lower(e.domain), e.record_type, e.nameserver>>

\* the entry an add_entry call with the arguments of `last` makes at time now
Made(l, now) == HistoryEntry(l.arg[1], l.arg[2], l.arg[3], now, l.arg[4], l.arg[5])

\* the positions of the entries that an add_entry call must treat as duplicates
RecentWithKey(es, e) ==
    { i \in 1..Len(es) :
        /\ KeyOf(es[i]) = KeyOf(e)
        /\ es[i].timestamp <= e.timestamp
        /\ e.timestamp - es[i].timestamp < RecentThreshold }

C2_DedupReplaces ==
    LET e == Made(last', clock) IN
    (StepOf("add_entry") /\ RecentWithKey(entries, e) # {}) =>
        /\ Len(entries') = Len(entries)
        /\ entries'[1] = e
        /\ \E i \in RecentWithKey(entries, e) : Tail(entries') = RemoveAt(entries, i)

C2_TwoCallsCollapse ==
    (/\ fresh # None
     /\ Len(fresh[1]) = 2
     /\ KeyOf(fresh[1][1]) = KeyOf(fresh[1][2])
     /\ fresh[1][2].timestamp - fresh[1][1].timestamp < RecentThreshold)
        => Len(entries) = 1

\* C2: an add_entry whose key (domain in any letter case, record type,
\* nameserver) is that of an entry less than 5 minutes old replaces that
\* entry: the length is unchanged, the old entry is gone and position 0 holds
\* the new timestamp, status and query time; two such calls on an empty store
\* leave one entry.
C2_HistoryDedup == [][C2_DedupReplaces /\ C2_TwoCallsCollapse']_vars

\* C3: on a store with max_entries = M > 0, after N > M consecutive additions
\* with pairwise distinct keys the store holds exactly M entries: the M most
\* recent additions, newest first.
C3_HistoryBound ==
    (max_entries > 0 /\ Len(run) > max_entries) =>
        /\ Len(entries) = max_entries
        /\ \A i \in 1..max_entries : entries[i] = run[Len(run) + 1 - i]

NewestFirst(es) ==
    \A i \in 1..Len(es), j \in 1..Len(es) : i < j => es[i].timestamp >= es[j].timestamp

\* es is what is left of fs after deleting some of its entries, order kept
RECURSIVE Remains(_, _)
Remains(es, fs) ==
    IF es = <<>> THEN TRUE
    ELSE IF fs = <<>> THEN FALSE
    ELSE IF Head(es) = Head(fs) THEN Remains(Tail(es), Tail(fs))
    ELSE Remains(es, Tail(fs))

C4_OrderKept ==
    /\ NewestFirst(entries) /\ NewestFirst(entries')
    /\ (StepOf("add_entry") /\ entries' # <<>>) => entries'[1] = Made(last', clock)
    /\ ~StepOf("add_entry") => Remains(entries', entries)

\* C4: under a non-decreasing clock the timestamps of the sequence never
\* increase from position 0 to the tail, whatever operation is called; an
\* add_entry leaves the entry it adds at position 0 of whatever the store
\* keeps, and every other operation only deletes entries and keeps the order
\* of the rest, so the entry most recently added, while the sequence holds
\* it, is at position 0.
C4_NewestFirst == [][ctor = "" => C4_OrderKept]_vars

C4_Witness ==
    /\ last.op = "add_entry"
    /\ Len(entries) = 2
    /\ entries[1].timestamp > entries[2].timestamp
    /\ entries[1].timestamp - entries[2].timestamp < RecentThreshold
    /\ entries[1].domain = "A.com"

\* the entries of the document on disk are those in memory, in the same order
DiskMirrorsMemory(es, file) ==
    /\ file.jtype = "object"
    /\ "entries" \in DOMAIN file
    /\ Len(file.entries) = Len(es)
    /\ \A i \in 1..Len(es) :
          /\ file.entries[i].jtype = "object"
          /\ file.entries[i].domain = es[i].domain
          /\ file.entries[i].record_type = es[i].record_type[2]
          /\ file.entries[i].nameserver = es[i].nameserver
          /\ file.entries[i].timestamp = <<"iso", es[i].timestamp>>
          /\ file.entries[i].status = es[i].status
          /\ file.entries[i].query_time_ms = es[i].query_time_ms

MutationCompleted ==
    \/ StepOf("add_entry")
    \/ StepOf("clear_history")
    \/ StepOf("remove_entry") /\ last'.ret
    \/ StepOf("cleanup_old_entries") /\ Len(entries') < Len(entries)
    \/ StepOf("enforce_limit") /\ Len(entries') < Len(entries)
    \/ StepOf("set_max_entries") /\ Len(entries') < Len(entries)

\* C5: when add_entry, a successful remove_entry, clear_history, a cleanup that
\* removed something or a limit that trimmed something has returned, the file
\* holds the in-memory sequence, element for element; and once the file holds
\* the in-memory sequence it does so after every later operation.
C5_PersistedImmediately ==
    [][/\ MutationCompleted => DiskMirrorsMemory(entries', disk')
       /\ DiskMirrorsMemory(entries, disk) => DiskMirrorsMemory(entries', disk')]_vars

C5_Witness ==
    /\ last.op = "cleanup_old_entries"
    /\ Len(entries) = 1
    /\ clock - entries[1].timestamp < MinutesPerDay
    /\ added # None /\ added[1] # entries[1]
    /\ DiskMirrorsMemory(entries, disk)

\* the file cannot be loaded: it is missing, is not JSON, is not an object, or
\* holds an entry that is not a well-formed entry object
CannotBeLoaded(file) ==
    \/ file.jtype # "object"
    \/ /\ "entries" \in DOMAIN file
       /\ \E i \in 1..Len(file.entries) : file.entries[i] \notin ValidDicts

\* C6: whatever the content of a history file that cannot be loaded, the
\* constructor does not raise and the store it yields is empty.
C6_LoadNeverRaises ==
    (last.op = "__init__" /\ CannotBeLoaded(disk)) => (ctor = "" /\ entries = <<>>)

Min(a, b) == IF a <= b THEN a ELSE b

\* enforce_limit(m) and set_max_entries(m) as the claim has them
C15_LimitCalls ==
    (StepOf("enforce_limit") \/ StepOf("set_max_entries")) =>
        IF last'.arg[1] <= 0
        THEN entries' = entries /\ disk' = disk
        ELSE entries' = SubSeq(entries, 1, Min(last'.arg[1], Len(entries)))

\* an add_entry on a store whose max_entries is not positive drops nothing
C15_UnboundedAfterwards ==
    (StepOf("add_entry") /\ max_entries <= 0) => Len(entries') >= Len(entries)

\* C15: enforce_limit(m) and set_max_entries(m) with m <= 0 remove no entry
\* and write nothing, and after set_max_entries(m) with m <= 0 no add_entry
\* drops an existing entry; with m > 0 both keep exactly the first
\* min(m, length) entries in order.
C15_NonPositiveLimitIsUnlimited == [][C15_LimitCalls /\ C15_UnboundedAfterwards]_vars

C16_Removal ==
    LET index == last'.arg[1] IN
    StepOf("remove_entry") =>
        IF 0 <= index /\ index < Len(entries)
        THEN /\ last'.ret = TRUE
             /\ Len(entries') = Len(entries) - 1
             /\ \A j \in 1..Len(entries') :
                   entries'[j] = IF j <= index THEN entries[j] ELSE entries[j + 1]
             /\ DiskMirrorsMemory(entries', disk')
        ELSE /\ last'.ret = FALSE
             /\ entries' = entries
             /\ disk' = disk

\* C16: remove_entry(index) with 0 <= index < length removes exactly the
\* entry at that position, keeps the others in order, persists and returns
\* true; with any other index it returns false and changes neither the
\* sequence nor the file.
C16_RemoveByPosition == [][C16_Removal]_vars

C16_Witness ==
    /\ last.op = "remove_entry" /\ last.arg[1] = 1 /\ last.ret = TRUE
    /\ Len(entries) = 1
    /\ entries[1].record_type = RecordTypeMember("MX")

\* the cutoff of the cleanup call recorded in `last'`
Cutoff == clock - last'.arg[1] * MinutesPerDay

\* a cleanup step that leaves exactly `kept`: the file is written if and only
\* if an entry was removed
C17_Leaves(kept) ==
    IF last'.arg[1] <= 0
    THEN entries' = entries /\ disk' = disk
    ELSE /\ entries' = kept
         /\ IF Len(kept) < Len(entries)
            THEN DiskMirrorsMemory(entries', disk')
            ELSE disk' = disk

SurvivesDict(e) ==
    /\ to_dict(e).timestamp[1] = "iso"
    /\ to_dict(e).record_type \in RecordTypeValues
    /\ from_dict(to_dict(e)) = [exc |-> "", entry |-> e]

\* C18: every entry survives to_dict followed by from_dict with its six
\* fields equal, the timestamp written as ISO text and the record type as its
\* string code; and after any sequence of operations a new store constructed
\* on the file holds the entries of this store, in the same order.
C18_RoundTrip ==
    ctor = "" =>
        /\ \A i \in 1..Len(entries) : SurvivesDict(entries[i])
        /\ QueryHistory(disk, max_entries).exc = ""
        /\ QueryHistory(disk, max_entries).st.entries = entries

C18_Witness ==
    /\ last.op = "add_entry"
    /\ Len(entries) = 2
    /\ entries[1].timestamp = entries[2].timestamp
    /\ entries[1].nameserver # None /\ entries[1].query_time_ms = None
    /\ entries[2].record_type = RecordTypeMember("MX")
    /\ DiskMirrorsMemory(entries, disk)

C19_Copy ==
    LET limit == last'.arg[1] IN
    StepOf("get_entries") =>
        /\ last'.ret = IF limit = None THEN entries
                       ELSE SubSeq(entries, 1, Min(limit[1], Len(entries)))
        /\ entries' = entries
        /\ disk' = disk

\* C19: get_entries(limit) returns the first min(limit, length) entries in
\* order for every limit >= 0, and all of them without a limit, in a list of
\* its own: appending to, removing from or reordering the returned list
\* changes neither the entries of the store nor the file.
C19_GetEntriesCopies == [][C19_Copy]_vars

C19_Witness ==
    /\ last.op = "get_entries" /\ last.arg = <<None, "reverse">>
    /\ Len(entries) = 2 /\ entries[1] # entries[2]
    /\ last.ret = entries

\* the domains of es without repetition, in the order of their first occurrence
RECURSIVE FirstOccurrences(_)
FirstOccurrences(es) ==
    IF es = <<>> THEN <<>>
    ELSE LET before == FirstOccurrences(SubSeq(es, 1, Len(es) - 1))
             d == es[Len(es)].domain
         IN  IF \E i \in 1..Len(before) : before[i] = d THEN before ELSE Append(before, d)

C20_Domains ==
    LET limit == last'.arg[1]
        all == FirstOccurrences(entries)
    IN  StepOf("get_recent_domains") =>
            /\ Len(last'.ret) <= limit
            /\ last'.ret = SubSeq(all, 1, Len(last'.ret))
            /\ Len(last'.ret) = Min(limit, Len(all))
            /\ entries' = entries
            /\ disk' = disk

\* C20: get_recent_domains(limit) returns the domains of the history without
\* repetition, in newest-first order of first occurrence, at most limit of
\* them for every limit >= 0, and does not change the store.
C20_RecentDomainsCapped == [][C20_Domains]_vars

\* how many entries of es satisfy P
CountOf(es, P(_)) == Cardinality({ i \in 1..Len(es) : P(es[i]) })

\* the position at which type t is first met in the newest-first scan
FirstMet(es, t) ==
    CHOOSE i \in 1..Len(es) :
        /\ es[i].record_type[2] = t
        /\ \A j \in 1..(i - 1) : es[j].record_type[2] # t

C21_Stats ==
    LET stats == last.ret
        n == Len(entries)
        types == { entries[i].record_type[2] : i \in 1..n }
        count(t) == CountOf(entries, LAMBDA e : e.record_type[2] = t)
        dist == stats.type_distribution
    IN  IF n = 0
        THEN /\ stats.total_queries = 0 /\ stats.unique_domains = 0
             /\ stats.most_common_type = None
             /\ stats.success_rate.num = 0
        ELSE /\ stats.total_queries = n
             /\ stats.unique_domains = Cardinality({ entries[i].domain : i \in 1..n })
             /\ { dist[i][1] : i \in 1..Len(dist) } = types
             /\ Len(dist) = Cardinality(types)
             /\ \A i \in 1..Len(dist) : dist[i][2] = count(dist[i][1])
             /\ stats.most_common_type # None
             /\ LET m == stats.most_common_type[1] IN
                    /\ m \in types
                    /\ \A t \in types : count(t) <= count(m)
                    /\ \A t \in types :
                          count(t) = count(m) => FirstMet(entries, m) <= FirstMet(entries, t)
             /\ stats.success_rate.num * n =
                    100 * CountOf(entries, LAMBDA e : e.status = "NOERROR")
                        * stats.success_rate.den

\* C21: get_stats on an empty history returns total 0, no domains, no most
\* common type and rate 0; otherwise the number of entries, the number of
\* distinct domains, the count of each record type, a type of the largest
\* count (among equals the one met first in the newest-first scan) and the
\* rate 100 * (entries with status NOERROR) / total.
C21_GetStats == last.op = "get_stats" => C21_Stats

C21_Witness ==
    /\ last.op = "get_stats"
    /\ Len(entries) = 4
    /\ last.ret.type_distribution = << <<"MX", 2>>, <<"A", 2>> >>
    /\ last.ret.most_common_type = Some("MX")
    /\ last.ret.unique_domains = 2
    /\ last.ret.success_rate = [num |-> 300, den |-> 4]

----------------------------------------------------------------------------
(* Claims on the parser *)

\* the records of the three sections
Sections(p) == <<p.answer_section, p.authority_section, p.additional_section>>

\* the section that a record goes to
SectionIndex(section) ==
    CASE section = Some("answer") -> 1
      [] section = Some("authority") -> 2
      [] section = Some("additional") -> 3

C22_Line ==
    LET line == parser.lines[parser.pos] IN
    /\ line \in MalformedLines =>
          /\ Sections(parser') = Sections(parser)
          /\ parser'.pc = "scan"
          /\ parser'.pos = parser.pos + 1
          /\ parser'.current_section = parser.current_section
    /\ (line \in WellFormedLines /\ parser.current_section # None) =>
          /\ parser'.pc = "scan"
          /\ parser'.pos = parser.pos + 1
          /\ \A k \in 1..3 :
                Len(Sections(parser')[k]) =
                    Len(Sections(parser)[k])
                        + (IF k = SectionIndex(parser.current_section) THEN 1 ELSE 0)

\* C22: parse never raises and always returns a DigResponse; a malformed line
\* (non-numeric TTL, class outside IN/CH/HS, unknown type, malformed MX) adds no
\* record and the scan goes on, and a well-formed line met afterwards in a
\* section adds its record to that section.
C22_ParseNeverRaises ==
    [][ /\ parser'.exc = ""
        /\ parser'.pc = "done" => parser'.response # None
        /\ (parser.pc = "scan" /\ parser.pos <= Len(parser.lines)) => C22_Line ]_vars

\* parse has returned a record of a well-formed line that follows a malformed line
C22_Witness ==
    /\ parser.pc = "done"
    /\ parser.response # None
    /\ Len(parser.lines) = 3
    /\ parser.lines[1] \in SectionHeaders
    /\ parser.lines[2] \in MalformedLines
    /\ parser.lines[3] \in WellFormedLines
    /\ Len(parser.response[1].answer_section) + Len(parser.response[1].authority_section)
           + Len(parser.response[1].additional_section) = 1

\* y is x without its trailing dots
TrailingDotsStripped(x, y) ==
    \E k \in 0..Len(x) :
        /\ y = SubSeq(x, 1, k)
        /\ \A i \in (k + 1)..Len(x) : x[i] = "."
        /\ k = 0 \/ x[k] # "."

\* the record type that a text names in any case, A when it names none
ResolvedType(text) ==
    IF \E v \in RecordTypeValues : UpperText(text) = <<v>>
    THEN RecordTypeMember(UpperText(text)[1])
    ELSE RecordTypeMember("A")

\* C23: parse of an empty or whitespace-only output returns status "NODATA",
\* no record in any section, no server and no query time, the given domain
\* without its trailing dots, and the given type resolved (A when unrecognized).
C23_BlankOutput ==
    (parser.pc = "done" /\ \A i \in 1..Len(parser.output) : parser.output[i] \in Whitespace) =>
        /\ parser.exc = ""
        /\ parser.response # None
        /\ LET r == parser.response[1] IN
           /\ r.status = <<"NODATA">>
           /\ r.answer_section = <<>>
           /\ r.authority_section = <<>>
           /\ r.additional_section = <<>>
           /\ r.server = None
           /\ r.query_time_ms = None
           /\ TrailingDotsStripped(parser.domain, r.query_domain)
           /\ r.query_type = ResolvedType(parser.record_type)

\* parse has returned for a whitespace-only output, a domain that ends in dots
\* and a record type in lower case
C23_Witness ==
    /\ parser.pc = "done"
    /\ parser.output = <<" ", "\n", " ">>
    /\ parser.domain = <<"example.com", ".", ".">>
    /\ parser.record_type = <<"mx">>
    /\ parser.response # None
    /\ parser.response[1].query_type = RecordTypeMember("MX")
    /\ parser.response[1].query_domain = <<"example.com">>

\* the response holds one record, in the answer section
OnlyAnswer(r) ==
    /\ Len(r.answer_section) = 1
    /\ r.authority_section = <<>>
    /\ r.additional_section = <<>>

\* C24: the answer header followed by the one line `name ttl class TYPE value`,
\* for a known type other than MX, a class of IN, CH, HS and a ttl >= 0, parses
\* to one record, in the answer section: the ttl is the integer, the type and the
\* class are those of the line, name and value are those of the line without
\* their trailing dots, the value with its inner spaces.
C24_RoundTrip ==
    (parser.pc = "done" /\ Len(parser.lines) = 2 /\ parser.lines[1] = AnswerHeader) =>
        \A n \in RecordNames, t \in TTLs, c \in RecordClasses,
           ty \in RecordTypeValues \ {"MX"}, v \in RecordValues :
            parser.lines[2] = RecordLine(n, <<DigitsOf(t)>>, <<c>>, <<ty>>, v) =>
                /\ parser.response # None
                /\ OnlyAnswer(parser.response[1])
                /\ LET rec == parser.response[1].answer_section[1] IN
                   /\ rec.model = "DNSRecord"
                   /\ rec.ttl = t
                   /\ rec.record_type = RecordTypeMember(ty)
                   /\ rec.record_class = c
                   /\ TrailingDotsStripped(n, rec.name)
                   /\ TrailingDotsStripped(v, rec.value)

\* parse has returned the record of a TXT line of class CH whose name and value
\* end in dots and whose value has spaces inside
C24_Witness ==
    /\ parser.pc = "done"
    /\ parser.lines =
          <<AnswerHeader,
            RecordLine(<<"example.com", ".", ".">>, <<"0">>, <<"CH">>, <<"TXT">>,
                       <<"v", " ", " ", "spf1", " ", "abc", ".">>)>>
    /\ parser.response # None
    /\ parser.response[1].answer_section =
          << [model |-> "DNSRecord", name |-> <<"example.com">>, ttl |-> 0,
              record_class |-> "CH", record_type |-> RecordTypeMember("TXT"),
              value |-> <<"v", " ", " ", "spf1", " ", "abc">>] >>

\* the text is a first part of k chunks without whitespace, whitespace, and a
\* rest that begins at chunk j
TwoParts(v, k, j) ==
    /\ 1 <= k /\ k + 1 < j /\ j <= Len(v)
    /\ \A i \in 1..k : v[i] \notin Whitespace
    /\ \A i \in (k + 1)..(j - 1) : v[i] \in Whitespace
    /\ v[j] \notin Whitespace

\* the text writes the integer n >= 0
WritesNonNegative(text, n) ==
    \E m \in Numerals :
        /\ m[2] = n
        /\ \/ text = <<m[1]>>
           \/ text = <<"+", m[1]>>
           \/ text = <<"-", m[1]>> /\ n = 0

\* every record of the three sections
AllRecords(r) ==
    { r.answer_section[i] : i \in 1..Len(r.answer_section) }
        \cup { r.authority_section[i] : i \in 1..Len(r.authority_section) }
        \cup { r.additional_section[i] : i \in 1..Len(r.additional_section) }

\* the MX line with this value has given this record
C25_Record(v, rec) ==
    \E k \in 1..Len(v), j \in 1..Len(v), n \in { m[2] : m \in Numerals } :
        /\ TwoParts(v, k, j)
        /\ WritesNonNegative(SubSeq(v, 1, k), n)
        /\ rec.model = "MXRecord"
        /\ rec.record_type = RecordTypeMember("MX")
        /\ rec.priority = n
        /\ TrailingDotsStripped(SubSeq(v, j, Len(v)), rec.mail_server)
        /\ TrailingDotsStripped(v, rec.value)

\* the value of an MX line has its two parts, the first a priority >= 0
C25_TwoParts(v) ==
    \E k \in 1..Len(v), j \in 1..Len(v), n \in { m[2] : m \in Numerals } :
        TwoParts(v, k, j) /\ WritesNonNegative(SubSeq(v, 1, k), n)

\* C25: a line of type MX gives a record exactly when its value is a priority
\* >= 0, whitespace, and the mail server text that remains; the record is an
\* MXRecord of type MX with that priority, the mail server without its trailing
\* dots and the whole value without its trailing dots.  Otherwise the line is
\* dropped, and no record of type MX is ever a generic DNSRecord.
C25_MXLines ==
    /\ \A rec \in AllRecords(parser) :
          rec.record_type = RecordTypeMember("MX") <=> rec.model = "MXRecord"
    /\ (parser.pc = "done" /\ Len(parser.lines) = 2 /\ parser.lines[1] = AnswerHeader) =>
          \A t \in RecordTTLs, c \in RecordClasses, v \in MXValues :
              parser.lines[2] = RecordLine(DottedName, t, <<c>>, <<"MX">>, v) =>
                  /\ parser.response # None
                  /\ IF C25_TwoParts(v)
                     THEN /\ OnlyAnswer(parser.response[1])
                          /\ C25_Record(v, parser.response[1].answer_section[1])
                     ELSE AllRecords(parser.response[1]) = {}

\* parse has returned the MXRecord of `example.com. 300 IN MX 10 mail.example.com.`
C25_Witness ==
    /\ parser.pc = "done"
    /\ parser.lines = <<AnswerHeader, MXRecordLine>>
    /\ parser.response # None
    /\ Len(parser.response[1].answer_section) = 1
    /\ parser.response[1].answer_section[1].priority = 10
    /\ parser.response[1].answer_section[1].mail_server = <<"mail.example.com">>
    /\ parser.response[1].answer_section[1].value = <<"10", " ", "mail.example.com">>

\* parse has returned without a record for an MX line of negative priority
C25_WitnessDropped ==
    /\ parser.pc = "done"
    /\ parser.lines =
          <<AnswerHeader,
            RecordLine(DottedName, <<"300">>, <<"IN">>, <<"MX">>,
                       <<"-", "10", " ", "mail.example.com">>)>>
    /\ parser.response # None
    /\ AllRecords(parser.response[1]) = {}

\* the pattern matches at chunk i of the text and at no chunk before it
FirstMatch(o, i, At(_, _)) ==
    /\ i \in 1..Len(o)
    /\ At(o, i)
    /\ \A j \in 1..(i - 1) : ~At(o, j)

\* chunks b..e of the text are the longest run of chunks in S that begins after
\* the whitespace that follows chunk i
RunAfter(o, i, b, e, S) ==
    /\ i < b /\ b <= e /\ e <= Len(o)
    /\ \A k \in (i + 1)..(b - 1) : o[k] \in Whitespace
    /\ \A k \in b..e : o[k] \in S
    /\ e = Len(o) \/ o[e + 1] \notin S

\* the chunks of a text
Chunks(o) == { o[k] : k \in 1..Len(o) }

C26_Status(o, status) ==
    IF \E i \in 1..Len(o) : StatusAt(o, i)
    THEN \E i, b, e \in 1..Len(o) :
            /\ FirstMatch(o, i, StatusAt)
            /\ RunAfter(o, i + 1, b, e, { c \in Chunks(o) : IsWordChunk(c) })
            /\ status = SubSeq(o, b, e)
    ELSE status = <<"NOERROR">>

C26_QueryTime(o, query_time_ms) ==
    IF \E i \in 1..Len(o) : QueryTimeAt(o, i)
    THEN \E i, b \in 1..Len(o) :
            /\ FirstMatch(o, i, QueryTimeAt)
            /\ RunAfter(o, i + 3, b, b, DigitChunks)
            /\ query_time_ms = Some(IntOf(o[b]))
    ELSE query_time_ms = None

C26_Server(o, server) ==
    IF \E i \in 1..Len(o) : ServerAt(o, i)
    THEN \E i, b, e \in 1..Len(o) :
            /\ FirstMatch(o, i, ServerAt)
            /\ RunAfter(o, i + 1, b, e, Chunks(o) \ (Whitespace \cup {"#"}))
            /\ server = Some(SubSeq(o, b, e))
    ELSE server = None

\* C26: for every output that is not blank, the status of the response is the
\* word of the first `status:` match of the raw text, "NOERROR" when there is
\* none, the query time is the integer of the first `Query time: N msec` match
\* or absent, and the server is the first `SERVER:` match up to a '#' or
\* whitespace or absent, whatever the lines are: comments, headers, records
\* accepted or dropped, inside a section or outside.
C26_Metadata ==
    (parser.pc = "done" /\ \E i \in 1..Len(parser.output) : parser.output[i] \notin Whitespace) =>
        /\ parser.response # None
        /\ C26_Status(parser.output, parser.response[1].status)
        /\ C26_QueryTime(parser.output, parser.response[1].query_time_ms)
        /\ C26_Server(parser.output, parser.response[1].server)

\* parse has returned the status that an accepted record holds in its value,
\* ahead of the status of a comment line
C26_Witness ==
    /\ parser.pc = "done"
    /\ parser.lines = <<AnswerHeader, TXTRecordLine, StatusLine>>
    /\ parser.response # None
    /\ Len(parser.response[1].answer_section) = 1
    /\ parser.response[1].status = <<"SERVFAIL">>

----------------------------------------------------------------------------
(* Claims on validate_domain *)

\* t is x without the whitespace around it
Trimmed(x, t) ==
    \E b \in 1..(Len(x) + 1), e \in 0..Len(x) :
        /\ t = SubSeq(x, b, e)
        /\ \A i \in 1..(b - 1) : x[i] \in Whitespace
        /\ \A i \in (e + 1)..Len(x) : x[i] \in Whitespace
        /\ b <= e => (x[b] \notin Whitespace /\ x[e] \notin Whitespace)

C27_Valid(t) ==
    /\ t # <<>>
    /\ TextLen(t) <= 253
    /\ \A i \in 1..Len(t) : t[i] \in DomainChars
    /\ ~\E i \in 1..(Len(t) - 1) : t[i] = "." /\ t[i + 1] = "."
    /\ t[1] \notin {".", "-"}
    /\ t[Len(t)] \notin {".", "-"}

\* C27: validate_domain(d) is true exactly when d without the whitespace around
\* it is not empty, has at most 253 characters, all of them in [A-Za-z0-9.-],
\* has no two dots in a row and neither begins nor ends with '.' or '-'.
C27_ValidateDomain ==
    (fn.op = "validate_domain" /\ fn.ret # None) =>
        \E b \in 1..(Len(fn.arg) + 1), e \in 0..Len(fn.arg) :
            /\ Trimmed(fn.arg, SubSeq(fn.arg, b, e))
            /\ fn.ret[1] <=> C27_Valid(SubSeq(fn.arg, b, e))

\* validate_domain has accepted a domain of 253 characters with spaces around it
C27_Witness ==
    /\ fn.op = "validate_domain"
    /\ fn.ret = Some(TRUE)
    /\ TextLen(Strip(fn.arg)) = 253
    /\ Len(Strip(fn.arg)) < Len(fn.arg)

\* validate_domain has refused a domain of 254 characters in [A-Za-z0-9.-]
C27_WitnessTooLong ==
    /\ fn.op = "validate_domain"
    /\ fn.ret = Some(FALSE)
    /\ TextLen(fn.arg) = 254
    /\ \A i \in 1..Len(fn.arg) : fn.arg[i] \in {"a", LongRun}

----------------------------------------------------------------------------
(* Claims on the command *)

\* the nameserver is given and is not blank
HasNameserver(ns) == ns # None /\ \E i \in 1..Len(ns[1]) : ns[1][i] \notin Whitespace

\* the command is made of these parts, in this order
C28_Command(q, cmd) ==
    LET n == IF HasNameserver(q.nameserver) THEN 1 ELSE 0
        t == IF q.trace THEN 1 ELSE 0
        flags == SubSeq(cmd, 4 + n + t, Len(cmd))
    IN  /\ Len(cmd) >= 3 + n + t
        /\ cmd[1] = <<"dig">>
        /\ n = 1 => /\ Head(cmd[2]) = "@"
                    /\ Trimmed(q.nameserver[1], Tail(cmd[2]))
        /\ IF q.reverse_lookup
           THEN cmd[2 + n] = <<"-x">> /\ cmd[3 + n] = q.domain
           ELSE cmd[2 + n] = q.domain /\ cmd[3 + n] = q.record_type
        /\ t = 1 => cmd[4 + n] = <<"+trace">>
        /\ \A i \in 1..Len(cmd) :
              /\ cmd[i] = <<"+trace">> => (t = 1 /\ i = 4 + n)
              /\ Head(cmd[i]) = "@" => (n = 1 /\ i = 2)
        /\ IF q.short THEN flags = << <<"+short">> >>
           ELSE flags = << <<"+noall">>, <<"+answer">>, <<"+authority">>, <<"+additional">>,
                           <<"+stats">>, <<"+comments">>, <<"+cmd">> >>

C29_RecordTypeNormalised ==
    (fn.op \in CommandPaths /\ fn.ret # None /\ fn.ret # Some(<<>>)
        /\ ~fn.arg.reverse_lookup) =>
        LET given == fn.arg.record_type
            n == IF HasNameserver(fn.arg.nameserver) THEN 1 ELSE 0
        IN  \E b \in 1..(Len(given) + 1), e \in 0..Len(given) :
                /\ Trimmed(given, SubSeq(given, b, e))
                /\ fn.ret[1][3 + n] = UpperText(SubSeq(given, b, e))

----------------------------------------------------------------------------
(* Claims on the validator and the executor *)

\* C35: no domain that validate_domain rejects is placed in the command of a
\* spawned process by execute_dig or execute_dig_sync: whenever one of the
\* two hands a command to a process, validate_domain accepts the domain.
C35_ValidatorGuardsExecutor ==
    (fn.op \in {"execute_dig", "execute_dig_sync"} /\ fn.ret # None
        /\ fn.ret # Some(<<>>)) => validate_domain(fn.arg.domain)

----------------------------------------------------------------------------
(* Claims on the history view *)

\* the response "remove" has been given to the confirmation dialog of a row
RemoveConfirmed == view.dialogs # <<>> /\ view'.dialogs = <<>> /\ view'.response = "remove"

\* exactly the entry e, at one of its places, has left the store
RemovedExactly(e) ==
    \E i \in 1..Len(entries) : entries[i] = e /\ entries' = RemoveAt(entries, i)

\* C37: confirming the deletion of a displayed row removes from the store
\* exactly the entry that the row displays and no other, with or without a
\* search filter and whether or not the store has changed since the rows
\* were built.
C37_DeletesDisplayedEntry ==
    [][RemoveConfirmed => RemovedExactly(Head(view.dialogs).entry)]_vars

----------------------------------------------------------------------------
(* Claims on the main window *)

\* the effects logged so far that are of one of the kinds
EffectsOf(kinds) == { k \in 1..Len(window.log) : window.log[k].what \in kinds }

\* C33: the event-loop thread never runs or waits on an external process:
\* every run of a process, the query process and the availability probe
\* alike, is made by a worker thread.
C33_ProcessesOnWorkers ==
    \A k \in EffectsOf({"probe", "query"}) : window.log[k].thread = "worker"

\* C34: every parse of an output, every add_entry and every widget update that
\* a query completion causes is made by the event-loop thread, after the
\* callback of that query has scheduled _update_results.
C34_MarshalledToEventLoop ==
    \A k \in EffectsOf({"show", "parse", "add_entry"}) :
        /\ window.log[k].thread = "main"
        /\ \E j \in 1..(k - 1) :
              /\ window.log[j].what = "idle_add"
              /\ window.log[j].of = window.log[k].of

\* the completion of a query that a worker ran has been recorded in the history
C34_Witness ==
    \E k \in EffectsOf({"add_entry"}) :
        \E j \in 1..(k - 1) :
            /\ window.log[j] = Effect("idle_add", "worker", window.log[k].of, None)
            /\ \E i \in 1..(k - 1) : window.log[i].what = "parse"

\* C36: each completion is attributed to the query that produced it: its
\* output is parsed with, and its history entry is recorded under, the
\* domain, record type and nameserver that its query was issued with.
C36_OwnQuery ==
    \A k \in EffectsOf({"parse", "add_entry"}) :
        \E i \in 1..Len(window.workers) :
            /\ window.workers[i].of = window.log[k].of
            /\ window.log[k].by = Some(window.workers[i].query)

----------------------------------------------------------------------------
(* Claims on the data models *)

\* the constructor has failed with a validation error and has made no object
Refused(made) == made.exc = "ValidationError" /\ "value" \notin DOMAIN made

C30_Record(rec) ==
    /\ rec.ttl >= 0
    /\ rec.model = "MXRecord" =>
          (rec.record_type = RecordTypeMember("MX") /\ rec.priority >= 0)

\* C30: in every response that parse returns, every record of every section
\* has ttl >= 0, every MXRecord has the type MX and priority >= 0, and the query
\* time is absent or >= 0.  DNSRecord with a negative ttl, MXRecord with a
\* negative priority and DigResponse with a negative query time fail with a
\* validation error and make no object.
C30_ModelInvariants ==
    /\ parser.response # None =>
          /\ \A rec \in AllRecords(parser.response[1]) : C30_Record(rec)
          /\ parser.response[1].query_time_ms = None
                \/ parser.response[1].query_time_ms[1] >= 0
    /\ fn.op = "DNSRecord" =>
          /\ fn.arg.ttl < 0 => Refused(fn.ret[1])
          /\ fn.ret[1].exc = "" => C30_Record(fn.ret[1].value)
    /\ fn.op = "MXRecord" =>
          /\ (fn.arg.priority < 0 \/ fn.arg.ttl < 0) => Refused(fn.ret[1])
          /\ fn.ret[1].exc = "" => C30_Record(fn.ret[1].value)
    /\ fn.op = "DigResponse" =>
          /\ (fn.arg.query_time_ms # None /\ fn.arg.query_time_ms[1] < 0) =>
                Refused(fn.ret[1])
          /\ fn.ret[1].exc = "" =>
                (fn.ret[1].value.query_time_ms = None
                    \/ fn.ret[1].value.query_time_ms[1] >= 0)

\* MXRecord has been called with a ttl >= 0 and a negative priority
C30_Witness ==
    /\ fn.op = "MXRecord"
    /\ fn.arg.record_type = RecordTypeMember("MX")
    /\ fn.arg.ttl >= 0
    /\ fn.arg.priority < 0
    /\ Refused(fn.ret[1])

\* parse has returned an MXRecord and a query time
C30_WitnessParsed ==
    /\ parser.pc = "done"
    /\ parser.response # None
    /\ parser.response[1].query_time_ms = Some(8)
    /\ \E rec \in AllRecords(parser.response[1]) : rec.model = "MXRecord"

----------------------------------------------------------------------------
(* Claims on the scan of the sections *)

\* the section that a recognized header line names, None for any other line
HeaderOf(line) ==
    IF Strip(line) = Strip(AnswerHeader) THEN Some("answer")
    ELSE IF Strip(line) = Strip(AuthorityHeader) THEN Some("authority")
    ELSE IF Strip(line) = Strip(AdditionalHeader) THEN Some("additional")
    ELSE None

\* the section of the last recognized header among the first n lines, None
\* when there is none
RECURSIVE LastHeader(_, _)
LastHeader(lines, n) ==
    IF n = 0 THEN None
    ELSE IF HeaderOf(lines[n]) # None THEN HeaderOf(lines[n])
    ELSE LastHeader(lines, n - 1)

\* section k of the parser after the step is section k before it, or that
\* with one record more at its end
Grown(k) ==
    /\ Len(Sections(parser')[k]) = Len(Sections(parser)[k]) + 1
    /\ SubSeq(Sections(parser')[k], 1, Len(Sections(parser)[k])) = Sections(parser)[k]

C31_Line ==
    LET line == parser.lines[parser.pos] IN
    /\ parser'.current_section =
          (IF HeaderOf(line) # None THEN HeaderOf(line) ELSE parser.current_section)
    /\ parser.current_section = None => Sections(parser') = Sections(parser)
    /\ HeaderOf(line) # None => Sections(parser') = Sections(parser)
    /\ \A k \in 1..3 :
          \/ Sections(parser')[k] = Sections(parser)[k]
          \/ /\ Grown(k)
             /\ parser.current_section # None
             /\ k = SectionIndex(parser.current_section)
    /\ (line \in WellFormedLines /\ parser.current_section # None) =>
          Grown(SectionIndex(parser.current_section))

\* C31: parse scans the lines once with a current section that is none at
\* first; only a line that is one of the three recognized headers changes it;
\* a record line that parses is appended to the section of the most recent
\* recognized header, after the records already there; record lines met while
\* the section is none are dropped.
C31_SectionScan ==
    [][ /\ parser'.pc = "scan" =>
              /\ parser'.pos \in 1..(Len(parser'.lines) + 1)
              /\ parser'.current_section = LastHeader(parser'.lines, parser'.pos - 1)
        /\ parser.pc = "scan" =>
              /\ parser'.lines = parser.lines
              /\ parser'.pos >= parser.pos
        /\ (parser.pc = "scan" /\ parser.pos <= Len(parser.lines)) =>
              /\ parser'.pos = parser.pos + 1
              /\ C31_Line
        /\ (parser.pc = "scan" /\ parser'.pc = "done") =>
              /\ parser'.response # None
              /\ Sections(parser'.response[1]) = Sections(parser) ]_vars

\* parse has dropped a record met before any header and has returned the
\* record met after the authority header, in the authority section
C31_Witness ==
    /\ parser.pc = "done"
    /\ Len(parser.lines) = 3
    /\ parser.lines[1] \in WellFormedLines
    /\ parser.lines[2] = AuthorityHeader
    /\ parser.lines[3] \in WellFormedLines
    /\ parser.response # None
    /\ parser.response[1].answer_section = <<>>
    /\ Len(parser.response[1].authority_section) = 1
    /\ parser.response[1].additional_section = <<>>

----------------------------------------------------------------------------
(* Claims on the store: bound, deletion of rows, windows, loading *)

\* es is the beginning of fs
IsPrefix(es, fs) == Len(es) <= Len(fs) /\ es = SubSeq(fs, 1, Len(es))

\* after the add_entry step the store is within its limit and holds the new
\* entry followed by what it held, the replaced duplicate aside, cut at the tail
C32_Bounded ==
    LET e == Made(last', clock) IN
    /\ Len(entries') <= max_entries
    /\ \/ IsPrefix(entries', <<e>> \o entries)
       \/ \E i \in RecentWithKey(entries, e) : IsPrefix(entries', <<e>> \o RemoveAt(entries, i))

\* C32: after every add_entry on a store with max_entries > 0, on the insert
\* path and on the dedup-replace path, whatever the store held before, the
\* sequence has at most max_entries entries and the entries dropped are those
\* at the tail.
C32_AddEntryBound ==
    [][(ctor = "" /\ StepOf("add_entry") /\ max_entries > 0) => C32_Bounded]_vars

\* the entry e is the entry that the object d of the file describes
Describes(d, e) ==
    /\ d.domain = e.domain
    /\ d.record_type = e.record_type[2]
    /\ d.nameserver = e.nameserver
    /\ d.timestamp = <<"iso", e.timestamp>>
    /\ d.status = e.status
    /\ d.query_time_ms = e.query_time_ms

\* es holds every entry of the file, as many times as the file does, newest first
HoldsAllOf(es, file) ==
    /\ file.jtype = "object"
    /\ "entries" \in DOMAIN file
    /\ Len(es) = Len(file.entries)
    /\ NewestFirst(es)
    /\ \A d \in ValidDicts :
          Cardinality({ i \in 1..Len(file.entries) : file.entries[i] = d })
              = Cardinality({ j \in 1..Len(es) : Describes(d, es[j]) })

\* an entry of the file is not a well-formed entry object
HasInvalidEntry(file) ==
    /\ file.jtype = "object"
    /\ "entries" \in DOMAIN file
    /\ \E i \in 1..Len(file.entries) : file.entries[i] \in BadDicts

\* the store as the constructor leaves it, the file being still as it found it
C40_Loaded ==
    last.op = "__init__" =>
        /\ ctor = "" => (entries = <<>> \/ HoldsAllOf(entries, disk))
        /\ HasInvalidEntry(disk) => (ctor = "" /\ entries = <<>>)

\* C40: after construction the in-memory sequence is every entry of the file,
\* newest first, or it is empty, never a part of the file; with one invalid
\* entry in the file nothing is loaded, and the first mutation that is
\* persisted leaves in the file the in-memory sequence and nothing else.
C40_LoadAllOrNothing ==
    [][ /\ C40_Loaded
        /\ C40_Loaded'
        /\ (last.op = "__init__" /\ ctor = "" /\ MutationCompleted) =>
              DiskMirrorsMemory(entries', disk') ]_vars

\* C38: from an empty store under a clock that never goes back, after any
\* sequence of add_entry, remove_entry, clear_history, cleanup_old_entries,
\* enforce_limit and set_max_entries, two entries of the sequence with the same
\* key (the domain in any case, the record type, the nameserver) have
\* timestamps at least 5 minutes apart.
C38_OnePerWindow ==
    \A i \in 1..Len(entries), j \in 1..Len(entries) :
        (i < j /\ KeyOf(entries[i]) = KeyOf(entries[j])) =>
            entries[i].timestamp - entries[j].timestamp >= RecentThreshold

\* the store holds two entries of one key, spelled in two ways, 5 minutes apart
C38_Witness ==
    /\ Len(entries) >= 2
    /\ \E i \in 1..Len(entries), j \in 1..Len(entries) :
          /\ i < j
          /\ KeyOf(entries[i]) = KeyOf(entries[j])
          /\ entries[i].domain # entries[j].domain
          /\ entries[i].timestamp - entries[j].timestamp = RecentThreshold

----------------------------------------------------------------------------
(* Claims on comment lines *)

\* the line that the loop is at begins, once stripped, with ';'
AtCommentLine ==
    /\ parser.pc = "scan"
    /\ parser.pos <= Len(parser.lines)
    /\ Strip(parser.lines[parser.pos]) # <<>>
    /\ Strip(parser.lines[parser.pos])[1] = ";"

\* C39: a line that begins with ';' adds no record to any section, whatever
\* the current section, also when it holds the text 'SECTION:' without being
\* one of the three recognized headers.
C39_CommentsAddNoRecord ==
    [][AtCommentLine => Sections(parser') = Sections(parser)]_vars

====
